---- MODULE Spec2Model ----
(***************************************************************************)
(* A model of SNID SAGE: the clustering step of the classification         *)
(* pipeline (snid/cosmological_clustering.py), the GUI application         *)
(* controller that runs an analysis in a background thread                  *)
(* (interfaces/gui/controllers/pyside6_app_controller.py), the cluster     *)
(* selection callbacks, and the identify command (interfaces/cli/           *)
(* identify.py).                                                            *)
(*                                                                          *)
(* Numbers.  The code computes scores in floating point.  The model keeps  *)
(* them exact: a top-5 mean is stored multiplied by MeanScale, a penalty   *)
(* factor multiplied by PenaltyScale and a penalized score multiplied by   *)
(* MeanScale * PenaltyScale, all of them integers.                         *)
(*                                                                          *)
(* The Gaussian mixture (sklearn) is outside the repository: a fit either  *)
(* raises, or returns some number of components K and some assignment of   *)
(* the matches to the components 0..K-1.                                    *)
(***************************************************************************)
EXTENDS Integers, Sequences, FiniteSets, TLC

VARIABLES
    \* ---- the clustering step (perform_direct_gmm_clustering)
    matches,                \* the admitted matches handed to the clustering step
    min_matches_per_type,   \* parameter of perform_direct_gmm_clustering
    max_clusters_per_type,  \* parameter of perform_direct_gmm_clustering
    cpc,                    \* where the clustering step is
    pending,                \* the qualifying types not yet clustered, in dict order
    type_success,           \* clustering_results[sn_type]['success'] per handled type
    all_cluster_candidates, \* the candidates built so far
    clustering_results,     \* what perform_direct_gmm_clustering returns
    confidence_assessment,  \* what _calculate_cluster_confidence returned
    \* ---- the GUI application controller (PySide6AppController)
    original_loaded,        \* original_wave / original_flux are not None
    processed_spectrum,     \* processed_spectrum is not None
    snid_results,           \* self.snid_results
    current_state,          \* the workflow state
    analysis_running,       \* self.analysis_running
    max_templates,          \* self.max_templates
    current_template,       \* self.current_template
    tpc,                    \* where the analysis thread is
    cancelled,              \* AnalysisProgressDialog.cancelled of the run's dialog
    completed,              \* analysis_completed emitted by the current run, if any
    selection_needed,       \* cluster_selection_needed emitted and not yet answered
    \* ---- subtype voting (choose_subtype_weighted_voting)
    cluster_members,        \* the matches with gamma[i, k_star] >= resp_cut
    spc,                    \* where the subtype voting is
    subtype_scores,         \* subtype_scores, in dict order
    best_subtype,           \* the subtype returned as best
    second_best_subtype,    \* the subtype returned as second best, "None" for None
    \* ---- the identify command (interfaces/cli/identify.py, main)
    args,                   \* the command line and the environment of the run
    ipc,                    \* where main is
    cli_result,             \* what run_snid_analysis returned
    save_queue,             \* the writes _save_spectrum_outputs has still to do
    files,                  \* the files written into the output directory
    write_failed,           \* a write of _save_spectrum_outputs raised
    exit_code,              \* the value main returned, -1 while it runs
    printed,                \* the error lines main has printed, with their stream
    \* ---- the wavelength grid (snid/preprocessing.py)
    grid,                   \* the module globals NW, W0, W1, DWLOG of preprocessing.py
    grid_first,             \* the grid as the first initialization of the run set it
    grid_result,            \* what the last call of get_grid_params returned or raised
    \* ---- the cluster selection callbacks
    rlap_cos_present,       \* the matches of the run carry the field rlap_cos
    max_output_templates,   \* the configured limit of the run
    cluster_matches,        \* the matches of the cluster the user picks, in its order
    shown_result,           \* best_matches, top_matches, filtered_matches of the result
    kpc,                    \* where the selection is
    \* ---- the redshift quality of a cluster (snid/cosmological_clustering.py)
    quality_threshold,      \* quality_threshold, in thousandths of redshift
    redshifts,              \* the redshifts of the cluster's matches, in thousandths
    cluster_info,           \* the cluster the path in question built
    qpc,                    \* where the construction of the cluster is
    \* ---- apodization (snid/preprocessing.py, preprocessing_dialog.py)
    final_flux,             \* the flux the calling code holds, on the log grid
    apply_apodization,      \* the check box "Apply edge apodization" of the dialog
    apod_percent,           \* the percentage asked for
    processed,              \* flat_flux and tapered_flux of the spectrum produced
    apc,                    \* where the preprocessing is
    \* ---- two runs of the clustering step on the same input
    run_matches,            \* the matches both runs are given
    run_min_matches,        \* min_matches_per_type of both runs
    run_max_clusters,       \* max_clusters_per_type of both runs
    gmm_fit,                \* what GaussianMixture(random_state=42) computes per type
    run_results,            \* the dictionaries the runs returned, in order
    rpc,                    \* where the experiment is
    \* ---- Savitzky-Golay smoothing (savgol_filter_fixed, savgol_filter_wavelength)
    sg_data,                \* the flux array handed to the filter
    sg_call,                \* the call made: function, requested window, polyorder
    sg_result,              \* what the call returned or raised
    fpc,                    \* where the smoothing step is
    \* ---- a session of the controller with its analysis threads and dialogs
    original_from,          \* the file original_wave / original_flux were read from, 0 for None
    processed_from,         \* the file processed_spectrum was derived from, 0 for None
    session_results,        \* snid_results of the controller
    workflow_state,         \* current_state of the controller
    running_flag,           \* analysis_running of the controller
    threads,                \* the analysis threads started so far
    progress_dialog,        \* the modal progress dialog: none, shown or hidden
    selection_request,      \* the result of a cluster_selection_needed not yet handled
    selection_dialog,       \* the cluster selection dialog
    callback_calls,         \* how often the dialog called its callback, per closed dialog
    window_calls,           \* the main-window methods called, with the calling thread
    emitted,                \* the analysis_completed signals emitted
    after_reset,            \* reset_to_initial_state ran and no file was loaded since
    \* ---- the advanced preprocessing wizard and its preview calculator
    current_step,           \* the step the preprocessing wizard shows, 0..5
    applied_steps,          \* preview_calculator.applied_steps
    stage_memory,           \* preview_calculator.stage_memory: stage index to stored state
    current_stage_index,    \* preview_calculator.current_stage_index
    apply_btn,              \* the slot the Apply button is connected to
    revert_enabled,         \* the Revert button is enabled
    wizard_result,          \* the processed spectrum built by finish_preprocessing
    apply_log,              \* the Applies not reverted: step and state before each
    wizard_last,            \* what the last button press did
    wizard_count,           \* the failed Applies and the Reverts so far
    \* ---- the redshift mode dialog and the redshift window of the analysis thread
    redshift_value,         \* the redshift the dialog was opened with, in units of 0.0001
    fixed_checked,          \* "Force Exact Redshift" is checked, else "Search Around Redshift"
    range_text,             \* the text of the search range field
    mode_result,            \* what show_redshift_mode_dialog returned
    redshift_mode_config,   \* redshift_mode_config of the controller
    analysis_call,          \* zmin, zmax and forced_redshift passed to run_snid_analysis
    zpc                     \* "closed", "open", "returned", "configured" or "analysed"

cvars == <<matches, min_matches_per_type, max_clusters_per_type, cpc, pending,
           type_success, all_cluster_candidates, clustering_results,
           confidence_assessment>>

gvars == <<original_loaded, processed_spectrum, snid_results, current_state,
           analysis_running, max_templates, current_template, tpc, cancelled,
           completed, selection_needed>>

svars == <<cluster_members, spc, subtype_scores, best_subtype, second_best_subtype>>

ivars == <<args, ipc, cli_result, save_queue, files, write_failed, exit_code, printed>>

\* the wavelength grid
wvars == <<grid, grid_first, grid_result>>

\* the selection callbacks on their own
kvars == <<rlap_cos_present, max_output_templates, cluster_matches, shown_result, kpc>>

\* the redshift quality of one cluster
qvars == <<quality_threshold, redshifts, cluster_info, qpc>>

\* apodization
avars == <<final_flux, apply_apodization, apod_percent, processed, apc>>

\* the clustering step run twice
rvars == <<run_matches, run_min_matches, run_max_clusters, gmm_fit, run_results, rpc>>

\* Savitzky-Golay smoothing
fvars == <<sg_data, sg_call, sg_result, fpc>>

\* a session of the controller
uvars == <<original_from, processed_from, session_results, workflow_state, running_flag,
           threads, progress_dialog, selection_request, selection_dialog,
           callback_calls, window_calls, emitted, after_reset>>

\* the advanced preprocessing wizard
zvars == <<current_step, applied_steps, stage_memory, current_stage_index, apply_btn,
           revert_enabled, wizard_result, apply_log, wizard_last, wizard_count>>

\* the redshift mode dialog and the redshift window
dvars == <<redshift_value, fixed_checked, range_text, mode_result, redshift_mode_config,
           analysis_call, zpc>>

\* the variables of the specifications of single modules
ovars == <<wvars, kvars, qvars, avars, rvars, fvars, uvars, zvars, dvars>>

vars == <<cvars, gvars, svars, ivars, ovars>>

-----------------------------------------------------------------------------
(* Bounds of the model *)

MaxMatches == 6

\* the inputs the model draws
TypeNames == {"Ia", "II"}
MetricValues == {5, 10}
MinMatchesChoices == {1, 2}
MaxClustersChoices == {1, 2}

(* Program constants *)
TopN == 5
PenaltyNum == 19
PenaltyDen == 20

\* the scales of the exact arithmetic: a mean over 1..5 values, a penalty over
\* at most TopN - 1 missing members (a scored cluster has at least one member)
MeanScale == 3 * 4 * 5
PenaltyScale == PenaltyDen * PenaltyDen * PenaltyDen * PenaltyDen

-----------------------------------------------------------------------------
(* Helpers *)

Min(a, b) == IF a <= b THEN a ELSE b

RECURSIVE Pow(_, _)
Pow(b, e) == IF e = 0 THEN 1 ELSE b * Pow(b, e - 1)

RECURSIVE SumSeq(_)
SumSeq(s) == IF s = <<>> THEN 0 ELSE Head(s) + SumSeq(Tail(s))

Front(s) == SubSeq(s, 1, Len(s) - 1)

RECURSIVE SelectSeqIdx(_, _)
\* the subsequence of s at the (increasing) positions in idx
SelectSeqIdx(s, idx) ==
    IF s = <<>> THEN <<>>
    ELSE LET rest == SelectSeqIdx(Front(s), idx)
         IN  IF Len(s) \in idx THEN Append(rest, s[Len(s)]) ELSE rest

\* list.sort(reverse=True) on numbers
InsertValueDesc(s, x) ==
    LET p == Cardinality({i \in 1..Len(s) : s[i] >= x})
    IN  SubSeq(s, 1, p) \o <<x>> \o SubSeq(s, p + 1, Len(s))

RECURSIVE SortValuesDesc(_)
SortValuesDesc(s) ==
    IF s = <<>> THEN <<>> ELSE InsertValueDesc(SortValuesDesc(Front(s)), s[Len(s)])

-----------------------------------------------------------------------------
(* perform_direct_gmm_clustering: grouping by type *)

\* type_groups: the types in order of first appearance (dict insertion order)
RECURSIVE TypeOrder(_)
TypeOrder(ms) ==
    IF ms = <<>> THEN <<>>
    ELSE LET before == TypeOrder(Front(ms))
             t == ms[Len(ms)].type
         IN  IF \E i \in 1..Len(before) : before[i] = t THEN before ELSE Append(before, t)

TypeMatches(ms, t) == SelectSeqIdx(ms, {i \in 1..Len(ms) : ms[i].type = t})

\* a variant that asks for more than min_matches_per_type matches
FilteredTypesStrict(ms, minm) ==
    LET order == TypeOrder(ms)
    IN  SelectSeqIdx(order, {i \in 1..Len(order) : Len(TypeMatches(ms, order[i])) > minm})

\* filtered_type_groups: the types with at least min_matches_per_type matches
FilteredTypes(ms, minm) ==
    LET order == TypeOrder(ms)
    IN  SelectSeqIdx(order, {i \in 1..Len(order) : Len(TypeMatches(ms, order[i])) >= minm})

\* max_clusters_actual = min(max_clusters, n_matches // 2 + 1)
MaxClustersActual(n, maxc) == Min(maxc, (n \div 2) + 1)

\* a cluster candidate as perform_direct_gmm_clustering builds it; the top-5
\* fields are filled in by find_winning_cluster_top5_method
Candidate(t, id, ms, method) ==
    [type |-> t, cluster_id |-> id, matches |-> ms, size |-> Len(ms),
     cluster_method |-> method, scored |-> FALSE,
     top_5_values |-> <<>>, top_5_mean |-> 0, penalty_factor |-> PenaltyScale,
     penalized_score |-> 0]

\* the candidates of one type for a fitted mixture of K components with the
\* given labels: one per component that has at least one member, in id order
RECURSIVE GmmCandidates(_, _, _, _)
GmmCandidates(t, tm, labels, K) ==
    IF K = 0 THEN <<>>
    ELSE LET before == GmmCandidates(t, tm, labels, K - 1)
             members == {i \in 1..Len(tm) : labels[i] = K - 1}
         IN  IF members = {} THEN before
             ELSE Append(before, Candidate(t, K - 1, SelectSeqIdx(tm, members), "direct_gmm"))

-----------------------------------------------------------------------------
(* find_winning_cluster_top5_method *)

MetricsOf(ms) == [i \in 1..Len(ms) |-> ms[i].metric]

Top5Values(values) == SubSeq(SortValuesDesc(values), 1, Min(TopN, Len(values)))

\* np.mean(top_5_values), times MeanScale
Top5Mean(top) == IF top = <<>> THEN 0 ELSE (SumSeq(top) * MeanScale) \div Len(top)

\* a variant that scales the penalty with the member count (n / 5)
PenaltyFactorLinear(n) ==
    IF n < TopN THEN (n * PenaltyScale) \div TopN ELSE PenaltyScale

\* 1.0, or 0.95 ** (5 - len(metric_values)) when len(metric_values) < 5; times PenaltyScale
PenaltyFactor(n) ==
    IF n < TopN
    THEN Pow(PenaltyNum, TopN - n) * Pow(PenaltyDen, n - 1)
    ELSE PenaltyScale

\* the annotations the method writes into a cluster dictionary
ScoreCluster(c) ==
    LET top == Top5Values(MetricsOf(c.matches))
        mean == Top5Mean(top)
        pf == PenaltyFactor(Len(c.matches))
    IN  [c EXCEPT !.scored = TRUE, !.top_5_values = top, !.top_5_mean = mean,
                  !.penalty_factor = pf, !.penalized_score = mean * pf]

ScoreAll(cands) == [i \in 1..Len(cands) |-> ScoreCluster(cands[i])]

\* cluster_scores.sort(key=penalized_score, reverse=True): stable, on candidate indices
InsertScoreDesc(cands, s, x) ==
    LET p == Cardinality({i \in 1..Len(s) :
                            cands[s[i]].penalized_score >= cands[x].penalized_score})
    IN  SubSeq(s, 1, p) \o <<x>> \o SubSeq(s, p + 1, Len(s))

RECURSIVE SortScoresDesc(_, _)
SortScoresDesc(cands, n) ==
    IF n = 0 THEN <<>> ELSE InsertScoreDesc(cands, SortScoresDesc(cands, n - 1), n)

\* cluster_scores after the sort, as indices into the scored candidates
ClusterScores(scored) == SortScoresDesc(scored, Len(scored))

\* a variant that takes the other end of the sorted list
WinningIndexLast(scored) == ClusterScores(scored)[Len(scored)]

\* winning_cluster_info = cluster_scores[0]
WinningIndex(scored) == ClusterScores(scored)[1]

\* a variant that takes the margin relative to the best score
ConfidenceLevelOverBest(best_score, second_best_score) ==
    LET margin == best_score - second_best_score
    IN  IF best_score <= 0 THEN "high"
        ELSE IF margin * 10 >= 3 * best_score THEN "high"
        ELSE IF margin * 20 >= 3 * best_score THEN "medium"
        ELSE IF margin * 20 >= best_score THEN "low"
        ELSE "very_low"

\* lines 897-912: the confidence level read off the relative margin; the margin is
\* infinite when the second best score is not positive
ConfidenceLevel(best_score, second_best_score) ==
    LET margin == best_score - second_best_score
    IN  IF second_best_score <= 0 THEN "high"
        ELSE IF margin * 10 >= 3 * second_best_score THEN "high"
        ELSE IF margin * 20 >= 3 * second_best_score THEN "medium"
        ELSE IF margin * 20 >= second_best_score THEN "low"
        ELSE "very_low"

NoAssessment == [confidence_level |-> "", margin_vs_second |-> 0, second_best_type |-> ""]

\* _calculate_cluster_confidence(cluster_scores, metric_name); the single-cluster
\* dictionary has an infinite margin and no second_best_type
CalculateClusterConfidence(scored) ==
    LET cs == ClusterScores(scored)
    IN  IF Len(cs) < 2
        THEN [confidence_level |-> "high", margin_vs_second |-> 0, second_best_type |-> ""]
        ELSE LET best_score == scored[cs[1]].penalized_score
                 second_best_score == scored[cs[2]].penalized_score
             IN  [confidence_level |-> ConfidenceLevel(best_score, second_best_score),
                  margin_vs_second |-> best_score - second_best_score,
                  second_best_type |-> scored[cs[2]].type]

\* a cluster dictionary is referred to by its type and its id within the type
NoCluster == [type |-> "", cluster_id |-> -1]
KeyOf(c) == [type |-> c.type, cluster_id |-> c.cluster_id]

\* winning_cluster = winning_cluster_info['cluster']
WinningCluster(scored) == KeyOf(scored[WinningIndex(scored)])

-----------------------------------------------------------------------------
(* The clustering step as a state machine *)

NotRun == [state |-> "NotRun", success |-> FALSE, reason |-> "", best_cluster |-> NoCluster]

MatchKinds == [type : TypeNames, metric : MetricValues]

InitCluster ==
    /\ matches = <<>>
    /\ min_matches_per_type \in MinMatchesChoices
    /\ max_clusters_per_type \in MaxClustersChoices
    /\ cpc = "collect"
    /\ pending = <<>>
    /\ type_success = <<>>
    /\ all_cluster_candidates = <<>>
    /\ clustering_results = NotRun
    /\ confidence_assessment = NoAssessment

\* the correlator admits one more match; the list is kept sorted by metric, best first
AddMatch ==
    /\ tpc = "pipeline"
    /\ UNCHANGED <<gvars, svars, ivars, ovars>>
    /\ cpc = "collect"
    /\ Len(matches) < MaxMatches
    /\ \E m \in MatchKinds :
          /\ IF matches = <<>> THEN TRUE ELSE matches[Len(matches)].metric >= m.metric
          /\ matches' = Append(matches, m)
    /\ UNCHANGED <<confidence_assessment, min_matches_per_type, max_clusters_per_type, cpc, pending,
                   type_success, all_cluster_candidates, clustering_results>>

\* lines 128-147: group by type, drop the types with too few matches
StartClustering ==
    /\ tpc = "pipeline"
    /\ UNCHANGED <<gvars, svars, ivars, ovars>>
    /\ cpc = "collect"
    /\ LET ft == FilteredTypes(matches, min_matches_per_type)
       IN  IF ft = <<>>
           THEN /\ clustering_results' =
                     [state |-> "InsufficientData", success |-> FALSE,
                      reason |-> "insufficient_matches", best_cluster |-> NoCluster]
                /\ cpc' = "returned"
                /\ pending' = pending
           ELSE /\ pending' = ft
                /\ cpc' = "types"
                /\ clustering_results' = clustering_results
    /\ UNCHANGED <<confidence_assessment, matches, min_matches_per_type, max_clusters_per_type,
                   type_success, all_cluster_candidates>>

\* lines 307-435 and 153-240 for one type whose mixture is fitted
GmmFitted ==
    /\ tpc = "pipeline"
    /\ UNCHANGED <<gvars, svars, ivars, ovars>>
    /\ cpc = "types"
    /\ pending # <<>>
    /\ LET t == Head(pending)
           tm == TypeMatches(matches, t)
           kmax == MaxClustersActual(Len(tm), max_clusters_per_type)
       IN  /\ kmax >= 2
           /\ \E K \in 1..kmax : \E labels \in [1..Len(tm) -> 0..(K - 1)] :
                 all_cluster_candidates' =
                     all_cluster_candidates \o GmmCandidates(t, tm, labels, K)
           /\ type_success' = Append(type_success, [type |-> t, success |-> TRUE])
    /\ pending' = Tail(pending)
    /\ UNCHANGED <<confidence_assessment, matches, min_matches_per_type, max_clusters_per_type, cpc,
                   clustering_results>>

\* a variant without the try/except of _perform_direct_gmm_clustering
GmmFailedUncaught ==
    /\ tpc = "pipeline"
    /\ UNCHANGED <<gvars, svars, ivars, ovars>>
    /\ cpc = "types"
    /\ pending # <<>>
    /\ LET t == Head(pending)
           tm == TypeMatches(matches, t)
       IN  /\ MaxClustersActual(Len(tm), max_clusters_per_type) >= 2
           /\ type_success' = Append(type_success, [type |-> t, success |-> FALSE])
    /\ pending' = Tail(pending)
    /\ clustering_results' =
          [state |-> "Raised", success |-> FALSE, reason |-> "ValueError",
           best_cluster |-> NoCluster]
    /\ cpc' = "raised"
    /\ UNCHANGED <<confidence_assessment, matches, min_matches_per_type, max_clusters_per_type,
                   all_cluster_candidates>>

\* lines 433-435: the fit raises; the type yields {'success': False} and no candidate
GmmFailed ==
    /\ tpc = "pipeline"
    /\ UNCHANGED <<gvars, svars, ivars, ovars>>
    /\ cpc = "types"
    /\ pending # <<>>
    /\ LET t == Head(pending)
           tm == TypeMatches(matches, t)
       IN  /\ MaxClustersActual(Len(tm), max_clusters_per_type) >= 2
           /\ type_success' = Append(type_success, [type |-> t, success |-> FALSE])
    /\ pending' = Tail(pending)
    /\ UNCHANGED <<confidence_assessment, matches, min_matches_per_type, max_clusters_per_type, cpc,
                   all_cluster_candidates, clustering_results>>

\* lines 321-325: too few members for k >= 2.  _create_single_cluster_result returns
\* {'success': True, ...} without a 'gmm_model', and line 168 reads
\* type_result['gmm_model']: a KeyError leaves perform_direct_gmm_clustering
SingleClusterFallback ==
    /\ tpc = "pipeline"
    /\ UNCHANGED <<gvars, svars, ivars, ovars>>
    /\ cpc = "types"
    /\ pending # <<>>
    /\ LET t == Head(pending)
           tm == TypeMatches(matches, t)
       IN  /\ MaxClustersActual(Len(tm), max_clusters_per_type) < 2
           /\ type_success' = Append(type_success, [type |-> t, success |-> TRUE])
    /\ clustering_results' =
          [state |-> "Raised", success |-> FALSE, reason |-> "KeyError", best_cluster |-> NoCluster]
    /\ cpc' = "raised"
    /\ UNCHANGED <<confidence_assessment, matches, min_matches_per_type, max_clusters_per_type, pending,
                   all_cluster_candidates>>

\* lines 242-291: choose the best cluster and return
SelectBestCluster ==
    /\ tpc = "pipeline"
    /\ UNCHANGED <<gvars, svars, ivars, ovars>>
    /\ cpc = "types"
    /\ pending = <<>>
    /\ IF all_cluster_candidates = <<>>
       THEN /\ clustering_results' =
                 [state |-> "Failed", success |-> FALSE, reason |-> "no_clusters",
                  best_cluster |-> NoCluster]
            /\ all_cluster_candidates' = all_cluster_candidates
            /\ confidence_assessment' = confidence_assessment
       ELSE /\ all_cluster_candidates' = ScoreAll(all_cluster_candidates)
            /\ confidence_assessment' =
                 CalculateClusterConfidence(ScoreAll(all_cluster_candidates))
            /\ clustering_results' =
                 [state |-> "Succeeded", success |-> TRUE, reason |-> "",
                  best_cluster |-> WinningCluster(ScoreAll(all_cluster_candidates))]
    /\ cpc' = "returned"
    /\ UNCHANGED <<matches, min_matches_per_type, max_clusters_per_type, pending,
                   type_success>>

-----------------------------------------------------------------------------
(* The analysis result, as the controller and the selection callbacks read it *)

MaxOutputTemplates == 10

NoClustering ==
    [present |-> FALSE, success |-> FALSE, reason |-> "", all_candidates |-> <<>>,
     best_cluster |-> NoCluster, user_selected_cluster |-> NoCluster]

NoResult ==
    [present |-> FALSE, success |-> FALSE, best_matches |-> <<>>,
     filtered_matches |-> <<>>, clustering |-> NoClustering]

\* sorted(cluster_matches, key=get_best_metric_value, reverse=True): stable
InsertMatchDesc(s, m) ==
    LET p == Cardinality({i \in 1..Len(s) : s[i].metric >= m.metric})
    IN  SubSeq(s, 1, p) \o <<m>> \o SubSeq(s, p + 1, Len(s))

RECURSIVE SortMatchesDesc(_)
SortMatchesDesc(s) ==
    IF s = <<>> THEN <<>> ELSE InsertMatchDesc(SortMatchesDesc(Front(s)), s[Len(s)])

FirstN(s, n) == SubSeq(s, 1, Min(n, Len(s)))

\* the candidate of a list with the given key (keys are unique in a list)
ClusterAt(cands, key) ==
    cands[CHOOSE i \in 1..Len(cands) : KeyOf(cands[i]) = key]

HasCluster(cands, key) == \E i \in 1..Len(cands) : KeyOf(cands[i]) = key

\* the clustering dictionary perform_direct_gmm_clustering returns
ClusteringDict(cr, cands) ==
    [present |-> TRUE, success |-> cr.success, reason |-> cr.reason,
     all_candidates |-> IF cr.success THEN cands ELSE <<>>,
     best_cluster |-> cr.best_cluster, user_selected_cluster |-> NoCluster]

\* the result run_snid_analysis assembles (section 4.6 of the specification): the
\* matches are surfaced sorted by metric; with a successful clustering the best
\* matches are those of the winning cluster
AssembleResult(ms, clustering) ==
    LET sorted == SortMatchesDesc(ms)
        shown == IF clustering.present /\ clustering.success
                 THEN SortMatchesDesc(
                          ClusterAt(clustering.all_candidates, clustering.best_cluster).matches)
                 ELSE sorted
    IN  [present |-> TRUE, success |-> ms # <<>>,
         best_matches |-> FirstN(shown, MaxOutputTemplates),
         filtered_matches |-> sorted, clustering |-> clustering]

-----------------------------------------------------------------------------
(* PySide6AppController *)

\* _is_clustering_available
IsClusteringAvailable(result) ==
    /\ result.present
    /\ result.clustering.present
    /\ result.clustering.success
    /\ Len(result.clustering.all_candidates) > 1
    /\ \A i \in 1..Len(result.clustering.all_candidates) :
          result.clustering.all_candidates[i].matches # <<>>

\* len(result.best_matches), or 0 without a result
TemplateCount(result) == IF result.present THEN Len(result.best_matches) ELSE 0

\* _complete_analysis_workflow(result)
CompleteAnalysisWorkflow(result) ==
    /\ current_state' = "ANALYSIS_COMPLETE"
    /\ snid_results' = result
    /\ max_templates' = TemplateCount(result)

\* _run_analysis_thread, lines 597-628: after run_snid_analysis has returned
ThreadProcessResults ==
    /\ tpc = "process"
    /\ IF IsClusteringAvailable(snid_results)
       THEN /\ max_templates' = TemplateCount(snid_results)
            /\ selection_needed' = TRUE
            /\ UNCHANGED <<snid_results, current_state, completed>>
       ELSE /\ CompleteAnalysisWorkflow(snid_results)
            /\ completed' = "true"
            /\ UNCHANGED selection_needed
    /\ analysis_running' = FALSE
    /\ tpc' = "done"
    /\ UNCHANGED <<original_loaded, processed_spectrum, current_template, cancelled>>
    /\ UNCHANGED <<cvars, svars, ivars, ovars>>

\* _run_analysis_thread, lines 630-665: an exception in the thread
ThreadExcept ==
    /\ analysis_running' = FALSE
    /\ snid_results' = NoResult
    /\ completed' = "false"
    /\ tpc' = "done"
    /\ UNCHANGED <<original_loaded, processed_spectrum, current_state, max_templates,
                   current_template, cancelled, selection_needed>>

\* on_cluster_selected of the controller, lines 899-972, for the cluster with this key
SelectCluster(result, key) ==
    LET selected == ClusterAt(result.clustering.all_candidates, key)
        sorted == SortMatchesDesc(selected.matches)
        chosen == [result EXCEPT !.clustering.user_selected_cluster = key]
    IN  IF selected.matches # <<>>
        THEN [chosen EXCEPT !.best_matches = FirstN(sorted, MaxOutputTemplates),
                            !.filtered_matches = sorted]
        ELSE chosen

\* the callback on_cluster_selected of AnalysisMenuManager._show_cluster_selection_dialog,
\* lines 470-531: it also stores the selection as best_cluster
MenuSelectCluster(result, key) ==
    LET selected == ClusterAt(result.clustering.all_candidates, key)
        sorted == SortMatchesDesc(selected.matches)
        chosen == [result EXCEPT !.clustering.best_cluster = key,
                                 !.clustering.user_selected_cluster = key]
    IN  IF selected.matches # <<>>
        THEN [chosen EXCEPT !.best_matches = FirstN(sorted, MaxOutputTemplates),
                            !.filtered_matches = sorted]
        ELSE chosen

-----------------------------------------------------------------------------
(* One analysis run: the thread from run_snid_analysis on, clustering included *)

\* the subtype voting has not been asked for
IdleSubtype ==
    /\ cluster_members = <<>>
    /\ spc = "idle"
    /\ subtype_scores = <<>>
    /\ best_subtype = ""
    /\ second_best_subtype = ""

\* preprocessing.py as imported: lines 34-37 are comments, so the module binds none
\* of NW, W0, W1, DWLOG until init_wavelength_grid runs
Unbound == [bound |-> FALSE, NW |-> 0, W0 |-> 0, W1 |-> 0, DWLOG |-> 0]

NoGridResult == [called |-> FALSE, raised |-> "", value |-> Unbound]

\* no module of the package beyond the one under study has been used
IdleGrid ==
    /\ grid = Unbound
    /\ grid_first = Unbound
    /\ grid_result = NoGridResult

\* no result is on display
NoShownResult == [best_matches |-> <<>>, top_matches |-> <<>>, filtered_matches |-> <<>>]

IdleSelection ==
    /\ rlap_cos_present = FALSE
    /\ max_output_templates = 0
    /\ cluster_matches = <<>>
    /\ shown_result = NoShownResult
    /\ kpc = "idle"

\* no cluster is under construction
NoClusterInfo ==
    [present |-> FALSE, cluster_method |-> "", redshift_span |-> 0, redshift_quality |-> ""]

IdleQuality ==
    /\ quality_threshold = 0
    /\ redshifts = <<>>
    /\ cluster_info = NoClusterInfo
    /\ qpc = "idle"

\* no spectrum has been produced
NoProcessed == [flat_flux |-> <<>>, tapered_flux |-> <<>>]

IdleApodize ==
    /\ final_flux = <<>>
    /\ apply_apodization = FALSE
    /\ apod_percent = 0
    /\ processed = NoProcessed
    /\ apc = "idle"

\* the clustering step is not being repeated
IdleRepeat ==
    /\ run_matches = <<>>
    /\ run_min_matches = 0
    /\ run_max_clusters = 0
    /\ gmm_fit = <<>>
    /\ run_results = <<>>
    /\ rpc = "idle"

\* no smoothing call has been made
NoSavgolCall == [function |-> "", window |-> 0, polyorder |-> 0]
NoSavgolResult == [raised |-> "", num |-> <<>>, den |-> 1]

\* the smoothing step is not in use
IdleSavgol ==
    /\ sg_data = <<>>
    /\ sg_call = NoSavgolCall
    /\ sg_result = NoSavgolResult
    /\ fpc = "idle"

\* snid_results is None
NoSessionResult == [present |-> FALSE, from |-> 0, success |-> FALSE, clustering |-> FALSE]
NoSelectionDialog == [open |-> FALSE, result |-> NoSessionResult, init_error |-> FALSE]

\* no session of the controller is modelled
IdleSession ==
    /\ original_from = 0
    /\ processed_from = 0
    /\ session_results = NoSessionResult
    /\ workflow_state = "INITIAL"
    /\ running_flag = FALSE
    /\ threads = <<>>
    /\ progress_dialog = "idle"
    /\ selection_request = NoSessionResult
    /\ selection_dialog = NoSelectionDialog
    /\ callback_calls = <<>>
    /\ window_calls = {}
    /\ emitted = {}
    /\ after_reset = FALSE

\* self.result of the wizard before Finish
NoWizardResult == [finished |-> FALSE, flat_flux |-> <<>>, tapered_flux |-> <<>>,
                   flattened |-> <<>>]

\* no button of the wizard was pressed yet
NoPress == [kind |-> "none", step |-> 0, state |-> <<>>, effect |-> FALSE]

\* the preprocessing wizard is not open
IdleWizard ==
    /\ current_step = 0
    /\ applied_steps = <<>>
    /\ stage_memory = <<>>
    /\ current_stage_index = -1
    /\ apply_btn = "none"
    /\ revert_enabled = FALSE
    /\ wizard_result = NoWizardResult
    /\ apply_log = <<>>
    /\ wizard_last = NoPress
    /\ wizard_count = [failed |-> 0, reverts |-> 0]

\* None
NoConfig == [present |-> FALSE, mode |-> "", redshift |-> 0, search_range |-> 0,
             range_nan |-> FALSE]

\* run_snid_analysis was not called
NoAnalysisCall == [called |-> FALSE, zmin |-> 0, zmax |-> 0, forced |-> FALSE]

\* no redshift mode dialog is modelled
IdleRedshift ==
    /\ redshift_value = 0
    /\ fixed_checked = TRUE
    /\ range_text = [kind |-> "number", value |-> 5]
    /\ mode_result = NoConfig
    /\ redshift_mode_config = NoConfig
    /\ analysis_call = NoAnalysisCall
    /\ zpc = "closed"

IdleOthers ==
    /\ IdleRedshift
    /\ IdleWizard
    /\ IdleSession
    /\ IdleSavgol
    /\ IdleGrid
    /\ IdleSelection
    /\ IdleQuality
    /\ IdleApodize
    /\ IdleRepeat

\* the identify command is not running
IdleCli ==
    /\ args = [spectrum_exists |-> FALSE, templates_ok |-> FALSE, verbose |-> FALSE,
               mode |-> "default", stdout_unicode |-> FALSE]
    /\ ipc = "idle"
    /\ cli_result = "none"
    /\ save_queue = <<>>
    /\ files = {}
    /\ write_failed = FALSE
    /\ exit_code = -1
    /\ printed = <<>>

InitRun ==
    /\ InitCluster
    /\ IdleSubtype
    /\ IdleCli
    /\ IdleOthers
    /\ original_loaded = TRUE
    /\ processed_spectrum = TRUE
    /\ snid_results = NoResult
    /\ current_state = "PREPROCESSED"
    /\ analysis_running = TRUE
    /\ max_templates = 0
    /\ current_template = 0
    /\ tpc = "pipeline"
    /\ cancelled = FALSE
    /\ completed = "none"
    /\ selection_needed = FALSE

\* run_snid_analysis returns its result to the thread (line 574)
PipelineReturns ==
    /\ tpc = "pipeline"
    /\ cpc = "returned"
    /\ snid_results' =
          AssembleResult(matches, ClusteringDict(clustering_results, all_cluster_candidates))
    /\ tpc' = "process"
    /\ UNCHANGED <<original_loaded, processed_spectrum, current_state, analysis_running,
                   max_templates, current_template, cancelled, completed,
                   selection_needed>>
    /\ UNCHANGED <<cvars, svars, ivars, ovars>>

\* the exception of the clustering step leaves run_snid_analysis
PipelineRaises ==
    /\ tpc = "pipeline"
    /\ cpc = "raised"
    /\ ThreadExcept
    /\ UNCHANGED <<cvars, svars, ivars, ovars>>

NextCluster ==
    \/ AddMatch
    \/ StartClustering
    \/ GmmFitted
    \/ GmmFailed
    \/ SingleClusterFallback
    \/ SelectBestCluster
    \/ PipelineReturns
    \/ PipelineRaises
    \/ ThreadProcessResults

SpecCluster == InitRun /\ [][NextCluster]_vars

-----------------------------------------------------------------------------
(* Properties of the clustering step *)

ClusteringEnded == cpc \in {"returned", "raised"}

\* the number of matches of a type
CountOfType(t) == Cardinality({i \in 1..Len(matches) : matches[i].type = t})

\* the types with at least min_matches_per_type matches
Qualifies(t) == CountOfType(t) >= 1 /\ CountOfType(t) >= min_matches_per_type

\* a type too small for a mixture of two components
TooSmallForGmm(t) == max_clusters_per_type < 2 \/ CountOfType(t) < 2

\* the sum of the k largest values of a sequence, by repeated selection of a maximum
RECURSIVE SumLargest(_, _)
SumLargest(values, k) ==
    IF k = 0 \/ values = <<>> THEN 0
    ELSE LET i == CHOOSE j \in 1..Len(values) : \A l \in 1..Len(values) : values[l] <= values[j]
         IN  values[i] + SumLargest(SelectSeqIdx(values, (1..Len(values)) \ {i}), k - 1)

\* C1: the cluster returned as best_cluster has the maximum penalized_score among
\* all candidate clusters: no candidate has a strictly higher penalized_score.
C1_BestHasMaxScore ==
    clustering_results.state = "Succeeded" =>
        /\ HasCluster(all_cluster_candidates, clustering_results.best_cluster)
        /\ \A i \in 1..Len(all_cluster_candidates) :
              all_cluster_candidates[i].penalized_score <=
                  ClusterAt(all_cluster_candidates, clustering_results.best_cluster).penalized_score

\* C1 witness: a successful clustering whose best cluster is not the first candidate
\* and strictly beats another candidate
C1_Witness ==
    /\ clustering_results.state = "Succeeded"
    /\ Len(all_cluster_candidates) >= 3
    /\ KeyOf(all_cluster_candidates[1]) # clustering_results.best_cluster
    /\ all_cluster_candidates[1].penalized_score <
          ClusterAt(all_cluster_candidates, clustering_results.best_cluster).penalized_score

\* C3: for every candidate cluster, penalty_factor is 1 with 5 or more members and
\* 0.95^(5 - size) otherwise, and penalized_score is the mean of its top-5 metric
\* values multiplied by that penalty_factor.
C3_PenaltyRule ==
    \A i \in 1..Len(all_cluster_candidates) :
        LET c == all_cluster_candidates[i]
            k == Min(c.size, TopN)
        IN  c.scored =>
              /\ c.size >= TopN => c.penalty_factor = PenaltyScale
              /\ c.size < TopN =>
                    c.penalty_factor =
                        Pow(PenaltyNum, TopN - c.size) *
                            (PenaltyScale \div Pow(PenaltyDen, TopN - c.size))
              /\ c.top_5_mean * k = MeanScale * SumLargest(MetricsOf(c.matches), k)
              /\ c.penalized_score = c.top_5_mean * c.penalty_factor

\* C3 witness: scored candidates with exactly five members and with fewer than five
C3_Witness ==
    /\ \E i \in 1..Len(all_cluster_candidates) :
          all_cluster_candidates[i].scored /\ all_cluster_candidates[i].size = TopN
    /\ \E i \in 1..Len(all_cluster_candidates) :
          all_cluster_candidates[i].scored /\ all_cluster_candidates[i].size < TopN

C6_FallbackCompletes ==
    ClusteringEnded =>
        \A t \in TypeNames :
            (Qualifies(t) /\ TooSmallForGmm(t)) =>
                /\ clustering_results.state = "Succeeded"
                /\ \E i \in 1..Len(all_cluster_candidates) :
                      /\ all_cluster_candidates[i].type = t
                      /\ all_cluster_candidates[i].cluster_method = "single_cluster"
                      /\ all_cluster_candidates[i].matches = TypeMatches(matches, t)

\* every qualifying type had its mixture fit attempted, and every fit failed
AllFitsFailed ==
    /\ ClusteringEnded
    /\ pending = <<>>
    /\ type_success # <<>>
    /\ \A i \in 1..Len(type_success) : ~ type_success[i].success

\* C7: if the GMM fit fails for every qualifying type, the clustering step reports
\* failure without raising, and the analysis continues without clustering: the
\* matches are surfaced directly, no cluster selection is requested and the run
\* completes.
C7_AllFitsFailedContinues ==
    AllFitsFailed =>
        /\ clustering_results.state = "Failed"
        /\ ~ clustering_results.success
        /\ clustering_results.reason = "no_clusters"
        /\ ~ selection_needed
        /\ completed # "false"
        /\ tpc \in {"process", "done"} =>
              /\ snid_results.present
              /\ ~ IsClusteringAvailable(snid_results)
              /\ snid_results.best_matches = SortMatchesDesc(matches)
        /\ tpc = "done" =>
              /\ completed = "true"
              /\ current_state = "ANALYSIS_COMPLETE"
              /\ max_templates = Len(matches)
              /\ ~ analysis_running

\* C7 witness: two types qualified, both fits failed, and the run has completed
C7_Witness ==
    /\ AllFitsFailed
    /\ Len(type_success) = 2
    /\ tpc = "done"

-----------------------------------------------------------------------------
(* choose_subtype_weighted_voting *)

MaxMembers == 6

SubtypeNames == {"norm", "91bg"}
MemberKinds == [subtype : SubtypeNames, metric : MetricValues]

\* subtype_groups: the subtypes in order of first appearance (dict insertion order)
RECURSIVE SubtypeOrder(_)
SubtypeOrder(ms) ==
    IF ms = <<>> THEN <<>>
    ELSE LET before == SubtypeOrder(Front(ms))
             st == ms[Len(ms)].subtype
         IN  IF \E i \in 1..Len(before) : before[i] = st THEN before ELSE Append(before, st)

SubtypeMembers(ms, st) == SelectSeqIdx(ms, {i \in 1..Len(ms) : ms[i].subtype = st})

\* a variant that applies the penalty of the clusters
SubtypePenaltyAsClusters(n) == PenaltyFactor(n)

\* penalty_factor = len(top_values) / 5.0, times PenaltyScale
SubtypePenalty(n) == (n * PenaltyScale) \div TopN

\* subtype_scores[subtype] = mean_top * penalty_factor
SubtypeScore(group) ==
    LET top_values == Top5Values(MetricsOf(group))
    IN  Top5Mean(top_values) * SubtypePenalty(Len(top_values))

SubtypeScores(ms) ==
    LET order == SubtypeOrder(ms)
    IN  [i \in 1..Len(order) |->
            [subtype |-> order[i], score |-> SubtypeScore(SubtypeMembers(ms, order[i]))]]

\* max(subtype_scores, key=subtype_scores.get): the first key with the maximum score
BestSubtype(scores) ==
    scores[CHOOSE i \in 1..Len(scores) :
              /\ \A j \in 1..Len(scores) : scores[j].score <= scores[i].score
              /\ \A j \in 1..(i - 1) : scores[j].score < scores[i].score].subtype

\* abs(score - second_best_score) < 1e-6 on scores times MeanScale * PenaltyScale
CloseScores(a, b) ==
    (IF a >= b THEN a - b ELSE b - a) <= (MeanScale * PenaltyScale) \div (1000 * 1000)

\* lines 585-596: the first key, in dict order, whose score is within 1e-6 of the
\* second entry of the scores sorted descending; None with a single subtype
SecondBestSubtype(scores) ==
    IF Len(scores) > 1
    THEN LET sorted_scores == SortValuesDesc([i \in 1..Len(scores) |-> scores[i].score])
             second_best_score == sorted_scores[2]
             first == CHOOSE i \in 1..Len(scores) :
                         /\ CloseScores(scores[i].score, second_best_score)
                         /\ \A j \in 1..(i - 1) :
                               ~ CloseScores(scores[j].score, second_best_score)
         IN  scores[first].subtype
    ELSE "None"

\* the clustering step and the controller are not involved
IdleCluster ==
    /\ matches = <<>>
    /\ min_matches_per_type = CHOOSE n \in MinMatchesChoices : \A m \in MinMatchesChoices : n <= m
    /\ max_clusters_per_type = CHOOSE n \in MaxClustersChoices : \A m \in MaxClustersChoices : n <= m
    /\ cpc = "idle"
    /\ pending = <<>>
    /\ type_success = <<>>
    /\ all_cluster_candidates = <<>>
    /\ clustering_results = NotRun
    /\ confidence_assessment = NoAssessment

\* PySide6AppController.__init__
InitController ==
    /\ original_loaded = FALSE
    /\ processed_spectrum = FALSE
    /\ snid_results = NoResult
    /\ current_state = "INITIAL"
    /\ analysis_running = FALSE
    /\ max_templates = 0
    /\ current_template = 0
    /\ tpc = "idle"
    /\ cancelled = FALSE
    /\ completed = "none"
    /\ selection_needed = FALSE

InitSubtype ==
    /\ IdleCluster
    /\ InitController
    /\ IdleCli
    /\ IdleOthers
    /\ cluster_members = <<>>
    /\ spc = "collect"
    /\ subtype_scores = <<>>
    /\ best_subtype = ""
    /\ second_best_subtype = ""

\* lines 523-538: one more match of the winning type belongs to the cluster
AddMember ==
    /\ spc = "collect"
    /\ Len(cluster_members) < MaxMembers
    /\ \E m \in MemberKinds : cluster_members' = Append(cluster_members, m)
    /\ UNCHANGED <<spc, subtype_scores, best_subtype, second_best_subtype>>
    /\ UNCHANGED <<cvars, gvars, ivars, ovars>>

\* lines 540-598
ChooseSubtype ==
    /\ spc = "collect"
    /\ IF cluster_members = <<>>
       THEN /\ subtype_scores' = <<>>
            /\ best_subtype' = "Unknown"
            /\ second_best_subtype' = "None"
       ELSE /\ subtype_scores' = SubtypeScores(cluster_members)
            /\ best_subtype' = BestSubtype(SubtypeScores(cluster_members))
            /\ second_best_subtype' = SecondBestSubtype(SubtypeScores(cluster_members))
    /\ spc' = "returned"
    /\ UNCHANGED cluster_members
    /\ UNCHANGED <<cvars, gvars, ivars, ovars>>

NextSubtype ==
    \/ AddMember
    \/ ChooseSubtype

SpecSubtype == InitSubtype /\ [][NextSubtype]_vars

\* the metric values of the members of a subtype
MetricsOfSubtype(st) ==
    LET idx == {i \in 1..Len(cluster_members) : cluster_members[i].subtype = st}
    IN  MetricsOf(SelectSeqIdx(cluster_members, idx))

\* C4 as claimed: each subtype_score is the mean of the subtype's top-5 metric values
\* multiplied by the penalty_factor of the clusters, 1 with at least 5 members and
\* 0.95^(5 - size) otherwise.
C4_Original ==
    spc = "returned" =>
        \A i \in 1..Len(subtype_scores) :
            LET values == MetricsOfSubtype(subtype_scores[i].subtype)
                k == Min(Len(values), TopN)
            IN  subtype_scores[i].score =
                    ((MeanScale * SumLargest(values, k)) \div k) * PenaltyFactor(Len(values))

\* C4 as amended: each subtype with a member has one subtype_score, the mean of the
\* subtype's top-5 metric values multiplied by a penalty_factor of min(size, 5) / 5:
\* 1 with at least 5 members, 0.8 with 4, 0.6 with 3, 0.4 with 2 and 0.2 with 1.
C4_SubtypeScore ==
    spc = "returned" =>
        /\ \A st \in SubtypeNames :
              MetricsOfSubtype(st) # <<>> =>
                  Cardinality({i \in 1..Len(subtype_scores) : subtype_scores[i].subtype = st}) = 1
        /\ \A i \in 1..Len(subtype_scores) :
              LET values == MetricsOfSubtype(subtype_scores[i].subtype)
                  k == Min(Len(values), TopN)
              IN  /\ k >= 1
                  /\ subtype_scores[i].score =
                        ((MeanScale * SumLargest(values, k)) \div k) *
                            ((k * PenaltyScale) \div TopN)

\* C4 witness: the voting has scored a subtype of five or more members and a smaller one
C4_Witness ==
    /\ spc = "returned"
    /\ \E i \in 1..Len(subtype_scores) :
          Len(MetricsOfSubtype(subtype_scores[i].subtype)) >= TopN
    /\ \E i \in 1..Len(subtype_scores) :
          Len(MetricsOfSubtype(subtype_scores[i].subtype)) < TopN

-----------------------------------------------------------------------------
(* The identify command: main and _save_spectrum_outputs of cli/identify.py *)

Modes == {"minimal", "default", "complete"}

\* the command line and the environment: whether the spectrum file and the templates
\* directory exist, --verbose, the output mode, and whether the encoding of standard
\* output can encode the pictographs main prints
ArgChoices ==
    [spectrum_exists : BOOLEAN, templates_ok : BOOLEAN, verbose : BOOLEAN,
     mode : Modes, stdout_unicode : BOOLEAN]

\* the writes of _save_spectrum_outputs in order, per mode (lines 516-672)
SaveQueue(mode) ==
    IF mode = "complete"
    THEN <<"output", "fluxed", "flattened", "plots", "correlation", "template_data">>
    ELSE <<"output">>

\* the writes that sit in a try block of their own (lines 582-638 and 657-665)
GuardedWrites == {"plots", "template_data"}

InitCli ==
    /\ IdleCluster
    /\ InitController
    /\ IdleSubtype
    /\ IdleOthers
    /\ args \in ArgChoices
    /\ ipc = "start"
    /\ cli_result = "none"
    /\ save_queue = <<>>
    /\ files = {}
    /\ write_failed = FALSE
    /\ exit_code = -1
    /\ printed = <<>>

\* main returns
Return(code) ==
    /\ exit_code' = code
    /\ ipc' = "exited"

\* a print of main that reports an error: the stream it goes to, the tag its text
\* carries, and whether the text starts with a line feed before the tag
ErrorLine(stream, blank_first) ==
    [stream |-> stream, prefix |-> "[ERROR]", blank_first |-> blank_first]

\* print an error line and return 1
Fail(stream, blank_first) ==
    /\ printed' = Append(printed, ErrorLine(stream, blank_first))
    /\ Return(1)

\* lines 739-749: the spectrum file and the templates directory; both report with
\* print(..., file=sys.stderr)
CliValidate ==
    /\ ipc = "start"
    /\ IF ~ args.spectrum_exists \/ ~ args.templates_ok
       THEN Fail("stderr", FALSE)
       ELSE ipc' = "preprocess" /\ exit_code' = exit_code /\ printed' = printed
    /\ UNCHANGED <<args, cli_result, save_queue, files, write_failed>>
    /\ UNCHANGED <<cvars, gvars, svars, ovars>>

\* lines 767-803: read and preprocess the spectrum, announce the analysis; an
\* exception of read_spectrum or preprocess_spectrum, or of the print at line 802
\* when standard output cannot encode it, reaches the handlers at 933-941, which
\* print to sys.stderr
CliPreprocess ==
    /\ ipc = "preprocess"
    /\ \E raises \in BOOLEAN :
          IF raises \/ (~ args.verbose /\ ~ args.stdout_unicode)
          THEN Fail("stderr", FALSE)
          ELSE ipc' = "analysis" /\ exit_code' = exit_code /\ printed' = printed
    /\ UNCHANGED <<args, cli_result, save_queue, files, write_failed>>
    /\ UNCHANGED <<cvars, gvars, svars, ovars>>

\* lines 836-870: run_snid_analysis returns a successful result, an unsuccessful
\* one or None, or raises.  An unsuccessful result or None is reported by the print
\* at line 867, which names no file and whose text starts with "\n"; an exception
\* is reported by the handlers at 933-941
CliAnalysis ==
    /\ ipc = "analysis"
    /\ \E outcome \in {"success", "failed", "none", "raises"} :
          /\ cli_result' = IF outcome = "raises" THEN "none" ELSE outcome
          /\ IF outcome = "success"
             THEN ipc' = "mkdir" /\ exit_code' = exit_code /\ printed' = printed
             ELSE IF outcome = "raises"
                  THEN Fail("stderr", FALSE)
                  ELSE Fail("stdout", TRUE)
    /\ UNCHANGED <<args, save_queue, files, write_failed>>
    /\ UNCHANGED <<cvars, gvars, svars, ovars>>

\* lines 877-897: create the output directory and enter _save_spectrum_outputs
CliMkdir ==
    /\ ipc = "mkdir"
    /\ \E raises \in BOOLEAN :
          IF raises
          THEN Fail("stderr", FALSE) /\ save_queue' = save_queue
          ELSE /\ save_queue' = SaveQueue(args.mode)
               /\ ipc' = "save"
               /\ exit_code' = exit_code
               /\ printed' = printed
    /\ UNCHANGED <<args, cli_result, files, write_failed>>
    /\ UNCHANGED <<cvars, gvars, svars, ovars>>

\* one write of _save_spectrum_outputs.  A write that raises inside a try block of
\* its own is logged and the next one follows; any other exception is caught at
\* lines 674-676, logged as a warning, and ends _save_spectrum_outputs
CliWrite ==
    /\ ipc = "save"
    /\ save_queue # <<>>
    /\ \E raises \in BOOLEAN :
          IF raises
          THEN /\ write_failed' = TRUE
               /\ files' = files
               /\ save_queue' = IF Head(save_queue) \in GuardedWrites
                                THEN Tail(save_queue) ELSE <<>>
          ELSE /\ files' = files \cup {Head(save_queue)}
               /\ save_queue' = Tail(save_queue)
               /\ write_failed' = write_failed
    /\ UNCHANGED <<args, ipc, cli_result, exit_code, printed>>
    /\ UNCHANGED <<cvars, gvars, svars, ovars>>

\* lines 902-928: the summary and the closing lines.  create_unified_formatter and
\* get_display_summary may raise (only ImportError is caught at 912), and the prints
\* at 914, 921 and 926 raise UnicodeEncodeError when standard output cannot encode
\* them; both reach the handler at 936-941
CliSummary ==
    /\ ipc = "save"
    /\ save_queue = <<>>
    /\ \E raises \in BOOLEAN :
          IF raises \/ ~ args.stdout_unicode
          THEN Fail("stderr", FALSE)
          ELSE Return(0) /\ printed' = printed
    /\ UNCHANGED <<args, cli_result, save_queue, files, write_failed>>
    /\ UNCHANGED <<cvars, gvars, svars, ovars>>

NextCli ==
    \/ CliValidate
    \/ CliPreprocess
    \/ CliAnalysis
    \/ CliMkdir
    \/ CliWrite
    \/ CliSummary

SpecCli == InitCli /\ [][NextCli]_vars

\* C9 as claimed: identify returns 0 only when the analysis succeeded and its output
\* files were written, and returns 1 on any failure, a failure to write the outputs
\* included.
C9_ExitCodes ==
    ipc = "exited" =>
        /\ exit_code \in {0, 1}
        /\ exit_code = 0 =>
              /\ cli_result = "success"
              /\ ~ write_failed
              /\ "output" \in files
        /\ (cli_result # "success" \/ write_failed) => exit_code = 1

\* C10 as claimed: whenever identify ends with exit code 1 it has written no output
\* file.
C10_NoFilesOnFailure ==
    exit_code = 1 => files = {}

\* C11 as claimed: every error the identify command reports (missing spectrum,
\* missing templates, failed analysis, unexpected exception) is written to standard
\* error with the prefix "[ERROR]", and a run that ends with exit code 1 has
\* reported one.
C11_ErrorsOnStderr ==
    /\ \A i \in 1..Len(printed) :
          /\ printed[i].stream = "stderr"
          /\ printed[i].prefix = "[ERROR]"
          /\ ~ printed[i].blank_first
    /\ exit_code = 1 => printed # <<>>

-----------------------------------------------------------------------------
(* The GUI: the controller, its analysis thread, the progress dialog and the *)
(* cluster selection dialog                                                  *)

\* the matches of the analyses the GUI runs
GuiMatches ==
    <<[type |-> "Ia", metric |-> 10], [type |-> "Ia", metric |-> 10],
      [type |-> "Ia", metric |-> 5]>>

\* a result whose clustering succeeded with the given assignment to K components
ClusteredResult(ms, labels, K) ==
    LET cands == ScoreAll(GmmCandidates("Ia", ms, labels, K))
        cr == [state |-> "Succeeded", success |-> TRUE, reason |-> "",
               best_cluster |-> WinningCluster(cands)]
    IN  AssembleResult(ms, ClusteringDict(cr, cands))

\* a result whose clustering found no cluster
UnclusteredResult(ms) ==
    AssembleResult(ms, ClusteringDict([state |-> "Failed", success |-> FALSE,
                                       reason |-> "no_clusters",
                                       best_cluster |-> NoCluster], <<>>))

\* what run_snid_analysis may return to the thread
PipelineResults ==
    {UnclusteredResult(<<>>), UnclusteredResult(GuiMatches)} \cup
    {ClusteredResult(GuiMatches, labels, 2) : labels \in [1..Len(GuiMatches) -> {0, 1}]}

\* no modal dialog of a run is open: the menus and buttons of the main window respond
GuiFree == tpc \in {"idle", "done"} /\ ~ selection_needed

\* load_spectrum_file, lines 152-187, when the file can be read
LoadSpectrumFile ==
    /\ GuiFree
    /\ cpc = "idle"
    /\ original_loaded' = TRUE
    /\ current_state' = "FILE_LOADED"
    /\ UNCHANGED <<processed_spectrum, snid_results, analysis_running, max_templates,
                   current_template, tpc, cancelled, completed, selection_needed>>
    /\ UNCHANGED <<cvars, svars, ivars, ovars>>

\* run_preprocessing, lines 311-372, when preprocess_spectrum succeeds
RunPreprocessing ==
    /\ GuiFree
    /\ cpc = "idle"
    /\ original_loaded
    /\ processed_spectrum' = TRUE
    /\ current_state' = "PREPROCESSED"
    /\ UNCHANGED <<original_loaded, snid_results, analysis_running, max_templates,
                   current_template, tpc, cancelled, completed, selection_needed>>
    /\ UNCHANGED <<cvars, svars, ivars, ovars>>

\* AnalysisMenuManager.run_quick_analysis, lines 165-243: preprocess if needed, open a
\* new progress dialog, start the thread through run_analysis (lines 375-424), and on
\* its True call _handle_analysis_success (lines 376-403)
RunQuickAnalysis ==
    /\ GuiFree
    /\ cpc = "idle"
    /\ original_loaded
    /\ processed_spectrum' = TRUE
    /\ cancelled' = FALSE
    /\ completed' = "none"
    /\ tpc' = "start"
    /\ current_state' = "ANALYSIS_COMPLETE"
    /\ UNCHANGED <<original_loaded, snid_results, analysis_running, max_templates,
                   current_template, selection_needed>>
    /\ UNCHANGED <<cvars, svars, ivars, ovars>>

\* _run_analysis_thread, lines 455-493: the running flag, and the preprocessing if the
\* spectrum has not been preprocessed yet
ThreadBegin ==
    /\ tpc = "start"
    /\ analysis_running' = TRUE
    /\ processed_spectrum' = IF processed_spectrum THEN processed_spectrum ELSE TRUE
    /\ tpc' = "templates"
    /\ UNCHANGED <<original_loaded, snid_results, current_state, max_templates,
                   current_template, cancelled, completed, selection_needed>>
    /\ UNCHANGED <<cvars, svars, ivars, ovars>>

\* _run_analysis_thread, lines 495-572: the templates directory and the redshift range
ThreadTemplates ==
    /\ tpc = "templates"
    /\ tpc' = "pipeline"
    /\ UNCHANGED <<original_loaded, processed_spectrum, snid_results, current_state,
                   analysis_running, max_templates, current_template, cancelled,
                   completed, selection_needed>>
    /\ UNCHANGED <<cvars, svars, ivars, ovars>>

\* _run_analysis_thread, lines 574-595: run_snid_analysis returns
ThreadPipeline ==
    /\ tpc = "pipeline"
    /\ cpc = "idle"
    /\ \E r \in PipelineResults : snid_results' = r
    /\ tpc' = "process"
    /\ UNCHANGED <<original_loaded, processed_spectrum, current_state, analysis_running,
                   max_templates, current_template, cancelled, completed,
                   selection_needed>>
    /\ UNCHANGED <<cvars, svars, ivars, ovars>>

\* the templates directory is missing, or run_snid_analysis raises
ThreadRaises ==
    /\ tpc \in {"templates", "pipeline"}
    /\ cpc = "idle"
    /\ ThreadExcept
    /\ UNCHANGED <<cvars, svars, ivars, ovars>>

\* AnalysisProgressDialog._on_cancel, lines 384-401, answered Yes
CancelAnalysis ==
    /\ tpc \in {"start", "templates", "pipeline", "process"}
    /\ cpc = "idle"
    /\ ~ cancelled
    /\ cancelled' = TRUE
    /\ UNCHANGED <<original_loaded, processed_spectrum, snid_results, current_state,
                   analysis_running, max_templates, current_template, tpc, completed,
                   selection_needed>>
    /\ UNCHANGED <<cvars, svars, ivars, ovars>>

\* PySide6ClusterSelectionDialog._sort_candidates: the list is sorted in place, stable
InsertCandidateDesc(s, c) ==
    LET p == Cardinality({i \in 1..Len(s) : s[i].penalized_score >= c.penalized_score})
    IN  SubSeq(s, 1, p) \o <<c>> \o SubSeq(s, p + 1, Len(s))

RECURSIVE SortCandidates(_)
SortCandidates(cands) ==
    IF cands = <<>> THEN <<>>
    ELSE InsertCandidateDesc(SortCandidates(Front(cands)), cands[Len(cands)])

\* the result once the selection dialog has been built on its candidates
DialogOpened(result) ==
    [result EXCEPT !.clustering.all_candidates = SortCandidates(@)]

\* the dialog opened on cluster_selection_needed is confirmed or closed, and the
\* controller's on_cluster_selected runs (lines 899-972)
UserSelectsCluster ==
    /\ selection_needed
    /\ tpc = "done"
    /\ cpc = "idle"
    /\ \E i \in 1..Len(snid_results.clustering.all_candidates) :
          CompleteAnalysisWorkflow(
              SelectCluster(DialogOpened(snid_results),
                            KeyOf(snid_results.clustering.all_candidates[i])))
    /\ completed' = "true"
    /\ selection_needed' = FALSE
    /\ UNCHANGED <<original_loaded, processed_spectrum, analysis_running,
                   current_template, tpc, cancelled>>
    /\ UNCHANGED <<cvars, svars, ivars, ovars>>

\* AnalysisMenuManager.show_gmm_clustering, lines 428-463, with more than one
\* candidate: the dialog is confirmed or closed and the callback of lines 470-541 runs,
\* then _update_gui_after_cluster_selection (lines 580-626)
MenuSelectsCluster ==
    /\ GuiFree
    /\ cpc = "idle"
    /\ snid_results.present
    /\ snid_results.clustering.present
    /\ Len(snid_results.clustering.all_candidates) > 1
    /\ \E i \in 1..Len(snid_results.clustering.all_candidates) :
          snid_results' =
              MenuSelectCluster(DialogOpened(snid_results),
                                KeyOf(snid_results.clustering.all_candidates[i]))
    /\ current_template' = 0
    /\ UNCHANGED <<original_loaded, processed_spectrum, current_state, analysis_running,
                   max_templates, tpc, cancelled, completed, selection_needed>>
    /\ UNCHANGED <<cvars, svars, ivars, ovars>>

\* reset_to_initial_state, lines 750-793
ResetToInitialState ==
    /\ GuiFree
    /\ cpc = "idle"
    /\ original_loaded' = FALSE
    /\ processed_spectrum' = FALSE
    /\ snid_results' = NoResult
    /\ current_template' = 0
    /\ max_templates' = 0
    /\ current_state' = "INITIAL"
    /\ UNCHANGED <<analysis_running, tpc, cancelled, completed, selection_needed>>
    /\ UNCHANGED <<cvars, svars, ivars, ovars>>

\* navigate_to_template(index), lines 692-697
NavigateToTemplate ==
    /\ GuiFree
    /\ cpc = "idle"
    /\ \E index \in 0..Len(GuiMatches) :
          current_template' =
              IF 0 <= index /\ index < max_templates THEN index ELSE current_template
    /\ UNCHANGED <<original_loaded, processed_spectrum, snid_results, current_state,
                   analysis_running, max_templates, tpc, cancelled, completed,
                   selection_needed>>
    /\ UNCHANGED <<cvars, svars, ivars, ovars>>

\* next_template, lines 699-704 (and again lines 713-718)
NextTemplate ==
    /\ GuiFree
    /\ cpc = "idle"
    /\ current_template' =
          IF current_template < max_templates - 1
          THEN current_template + 1 ELSE current_template
    /\ UNCHANGED <<original_loaded, processed_spectrum, snid_results, current_state,
                   analysis_running, max_templates, tpc, cancelled, completed,
                   selection_needed>>
    /\ UNCHANGED <<cvars, svars, ivars, ovars>>

\* previous_template, lines 706-711
PreviousTemplate ==
    /\ GuiFree
    /\ cpc = "idle"
    /\ current_template' =
          IF current_template > 0 THEN current_template - 1 ELSE current_template
    /\ UNCHANGED <<original_loaded, processed_spectrum, snid_results, current_state,
                   analysis_running, max_templates, tpc, cancelled, completed,
                   selection_needed>>
    /\ UNCHANGED <<cvars, svars, ivars, ovars>>

InitGui ==
    /\ IdleCluster
    /\ InitController
    /\ IdleSubtype
    /\ IdleCli
    /\ IdleOthers

NextGui ==
    \/ LoadSpectrumFile
    \/ RunPreprocessing
    \/ RunQuickAnalysis
    \/ ThreadBegin
    \/ ThreadTemplates
    \/ ThreadPipeline
    \/ ThreadRaises
    \/ ThreadProcessResults
    \/ CancelAnalysis
    \/ UserSelectsCluster
    \/ MenuSelectsCluster
    \/ ResetToInitialState
    \/ NavigateToTemplate
    \/ NextTemplate
    \/ PreviousTemplate

SpecGui == InitGui /\ [][NextGui]_vars

\* C2 as claimed: a manual cluster choice is carried as user_selected_cluster and does
\* not overwrite best_cluster: after any sequence of user cluster selections on a
\* successful clustering result, best_cluster is still the automatically chosen
\* cluster.
C2_BestClusterKept ==
    (snid_results.present /\ snid_results.clustering.success) =>
        /\ HasCluster(snid_results.clustering.all_candidates,
                      snid_results.clustering.best_cluster)
        /\ snid_results.clustering.best_cluster =
              WinningCluster(snid_results.clustering.all_candidates)

\* C8 as claimed: once the user has confirmed Cancel for a running analysis, that run
\* does not go on to deliver analysis_completed(True).
C8_CancelStopsRun ==
    cancelled => completed # "true"

\* C32 as claimed: current_template is always a valid index into the best_matches
\* of the currently stored result: whenever the number of best_matches is positive,
\* max_templates is that number and 0 <= current_template < max_templates, also
\* after a new analysis or a cluster selection has changed the match list.
C32_CurrentTemplateValid ==
    (GuiFree /\ snid_results.present /\ Len(snid_results.best_matches) > 0) =>
        /\ max_templates = Len(snid_results.best_matches)
        /\ 0 <= current_template
        /\ current_template < max_templates

\* the index half of C32 alone: current_template addresses a match of the stored
\* result
C32_IndexInList ==
    (GuiFree /\ snid_results.present /\ Len(snid_results.best_matches) > 0) =>
        current_template < Len(snid_results.best_matches)

-----------------------------------------------------------------------------
(* The wavelength grid: init_wavelength_grid, _ensure_grid and get_grid_params *)
(* of snid/preprocessing.py                                                     *)

\* the grids a caller may ask for, some of them with too few points or with a
\* maximum wavelength that is not above the minimum
NumPointsChoices == {32, 1024, 2048}
MinWaveChoices == {2500, 5000}
MaxWaveChoices == {2500, 10000, 20000}

\* the default arguments of init_wavelength_grid (lines 39-41)
DefaultNumPoints == 1024
DefaultMinWave == 2500
DefaultMaxWave == 10000

\* np.log(W1 / W0) in units of 10^-6, for the ratios of the grids above
LogRatioMicro(w0, w1) ==
    CASE 2 * w1 = w0 -> -693147
      [] w1 = w0 -> 0
      [] w1 = 2 * w0 -> 693147
      [] w1 = 4 * w0 -> 1386294
      [] w1 = 8 * w0 -> 2079442

\* lines 43-45: the globals after init_wavelength_grid(num_points, min_wave, max_wave)
GridOf(num_points, min_wave, max_wave) ==
    [bound |-> TRUE, NW |-> num_points, W0 |-> min_wave, W1 |-> max_wave,
     DWLOG |-> LogRatioMicro(min_wave, max_wave) \div num_points]

\* init_wavelength_grid (lines 39-47): assigns the four globals, whatever they were
InitWavelengthGrid(num_points, min_wave, max_wave) ==
    /\ grid' = GridOf(num_points, min_wave, max_wave)
    /\ grid_first' = IF grid_first.bound THEN grid_first ELSE grid'

\* a component initializes the grid with values of its own
CallInitWavelengthGrid ==
    /\ \E n \in NumPointsChoices, w0 \in MinWaveChoices, w1 \in MaxWaveChoices :
          InitWavelengthGrid(n, w0, w1)
    /\ UNCHANGED grid_result
    /\ UNCHANGED <<cvars, gvars, svars, ivars, kvars, qvars, avars, rvars, fvars, uvars, zvars, dvars>>

\* the preprocessing dialog is constructed: init_wavelength_grid() with the defaults
\* (preprocessing_dialog.py lines 113-114)
DialogInitGrid ==
    /\ InitWavelengthGrid(DefaultNumPoints, DefaultMinWave, DefaultMaxWave)
    /\ UNCHANGED grid_result
    /\ UNCHANGED <<cvars, gvars, svars, ivars, kvars, qvars, avars, rvars, fvars, uvars, zvars, dvars>>

\* get_grid_params (lines 53-58) with _ensure_grid (lines 49-51): "DWLOG is None"
\* reads the global DWLOG, which raises NameError while the module has not bound it;
\* once bound it is a float, never None, and the four globals are returned
GetGridParams ==
    /\ IF ~ grid.bound
       THEN grid_result' = [called |-> TRUE, raised |-> "NameError", value |-> Unbound]
       ELSE grid_result' = [called |-> TRUE, raised |-> "", value |-> grid]
    /\ UNCHANGED <<grid, grid_first>>
    /\ UNCHANGED <<cvars, gvars, svars, ivars, kvars, qvars, avars, rvars, fvars, uvars, zvars, dvars>>

InitGrid ==
    /\ IdleCluster
    /\ InitController
    /\ IdleSubtype
    /\ IdleCli
    /\ IdleRedshift
    /\ IdleWizard
    /\ IdleSession
    /\ IdleSavgol
    /\ IdleGrid
    /\ IdleSelection
    /\ IdleQuality
    /\ IdleApodize
    /\ IdleRepeat

NextGrid ==
    \/ CallInitWavelengthGrid
    \/ DialogInitGrid
    \/ GetGridParams

SpecGrid == InitGrid /\ [][NextGrid]_vars

\* C12 as claimed: once the grid has been initialized its parameters NW, W0, W1 and
\* DWLOG never change; a later initialization with other values leaves them as the
\* first initialization set them.
C12_GridImmutable ==
    grid_first.bound => grid = grid_first

\* C13 as claimed: get_grid_params called while nothing has initialized the grid
\* performs the default initialization and returns NW=1024, W0=2500, W1=10000
\* instead of failing.
C13_DefaultInitialization ==
    (grid_result.called /\ ~ grid_first.bound) =>
        /\ grid_result.raised = ""
        /\ grid_result.value =
              GridOf(DefaultNumPoints, DefaultMinWave, DefaultMaxWave)

\* C23 as claimed: initializing the grid fails with InvalidGrid if W1 <= W0 or
\* NW < 64, and in that case no grid parameters are installed: the installed grid
\* always has W1 > W0 and NW >= 64.
C23_InvalidGridRejected ==
    grid.bound => (grid.W1 > grid.W0 /\ grid.NW >= 64)

-----------------------------------------------------------------------------
(* Ties between candidate clusters *)

\* the order of Python's string comparison on the type names: "II" < "Ia"
TypeNameRank(t) == IF t = "II" THEN 1 ELSE 2

\* C14 as claimed: when several candidates share the maximum penalized_score, the
\* best cluster is the largest of them, and among the largest the one whose type
\* name comes first in lexical order.
C14_TieBreak ==
    clustering_results.state = "Succeeded" =>
        LET best == ClusterAt(all_cluster_candidates, clustering_results.best_cluster)
        IN  \A i \in 1..Len(all_cluster_candidates) :
              LET c == all_cluster_candidates[i]
              IN  c.penalized_score = best.penalized_score =>
                    \/ c.size < best.size
                    \/ /\ c.size = best.size
                       /\ TypeNameRank(best.type) <= TypeNameRank(c.type)

-----------------------------------------------------------------------------
(* The cluster selection callbacks on a cluster of any size and order:          *)
(* on_cluster_selected of PySide6AppController and of AnalysisMenuManager       *)

\* one match more than the limit the callbacks apply
MaxClusterMatches == MaxOutputTemplates + 1

\* max_output_templates as the run was configured (controller line 587,
\* identify.py line 850)
MaxOutputChoices == {5, MaxOutputTemplates}

\* the metrics of a match; rlap_cos never exceeds rlap
SelMatchKinds == {[rlap |-> 10, rlap_cos |-> 4], [rlap |-> 5, rlap_cos |-> 5]}

\* the sort key of the callbacks: m.get('rlap_cos', m.get('rlap', 0))
GetBestMetricValue(m) == IF rlap_cos_present THEN m.rlap_cos ELSE m.rlap

\* sorted(..., key=get_best_metric_value, reverse=True): a stable sort
InsertByBestMetric(s, m) ==
    LET p == Cardinality({i \in 1..Len(s) :
                             GetBestMetricValue(s[i]) >= GetBestMetricValue(m)})
    IN  SubSeq(s, 1, p) \o <<m>> \o SubSeq(s, p + 1, Len(s))

RECURSIVE SortedByBestMetricFrom(_, _)
SortedByBestMetricFrom(done, rest) ==
    IF rest = <<>> THEN done
    ELSE SortedByBestMetricFrom(InsertByBestMetric(done, Head(rest)), Tail(rest))

\* a variant that leaves the cluster's order as it is
KeepClusterOrder(s) == s

SortByBestMetric(s) == SortedByBestMetricFrom(<<>>, s)

\* the lists of the result run_snid_analysis returns when the cluster is the best
\* one (section 4.6 of the specification): sorted by best metric, limited to
\* max_output_templates
AssembledLists(ms, limit) ==
    LET sorted == SortByBestMetric(ms)
    IN  [best_matches |-> FirstN(sorted, limit), top_matches |-> FirstN(sorted, limit),
         filtered_matches |-> FirstN(sorted, limit)]

\* the lists after on_cluster_selected (controller lines 912-932, menu manager
\* lines 487-507): max_templates = 10 whatever the run was configured with
OnClusterSelected(result, ms) ==
    LET cluster_matches_sorted == SortByBestMetric(ms)
    IN  IF ms # <<>>
        THEN [best_matches |-> FirstN(cluster_matches_sorted, MaxOutputTemplates),
              top_matches |-> FirstN(cluster_matches_sorted, MaxOutputTemplates),
              filtered_matches |-> cluster_matches_sorted]
        ELSE result

InitSelection ==
    /\ IdleCluster
    /\ InitController
    /\ IdleSubtype
    /\ IdleCli
    /\ IdleRedshift
    /\ IdleWizard
    /\ IdleSession
    /\ IdleSavgol
    /\ IdleGrid
    /\ IdleQuality
    /\ IdleApodize
    /\ IdleRepeat
    /\ rlap_cos_present \in BOOLEAN
    /\ max_output_templates \in MaxOutputChoices
    /\ cluster_matches = <<>>
    /\ shown_result = NoShownResult
    /\ kpc = "collect"

\* the clustering puts one more match into the cluster, in the order it met them
ClusterGainsMatch ==
    /\ kpc = "collect"
    /\ Len(cluster_matches) < MaxClusterMatches
    /\ \E m \in SelMatchKinds : cluster_matches' = Append(cluster_matches, m)
    /\ UNCHANGED <<rlap_cos_present, max_output_templates, shown_result, kpc>>
    /\ UNCHANGED <<cvars, gvars, svars, ivars, wvars, qvars, avars, rvars, fvars, uvars, zvars, dvars>>

\* run_snid_analysis returns its result
ResultAssembled ==
    /\ kpc = "collect"
    /\ cluster_matches # <<>>
    /\ shown_result' = AssembledLists(cluster_matches, max_output_templates)
    /\ kpc' = "assembled"
    /\ UNCHANGED <<rlap_cos_present, max_output_templates, cluster_matches>>
    /\ UNCHANGED <<cvars, gvars, svars, ivars, wvars, qvars, avars, rvars, fvars, uvars, zvars, dvars>>

\* the user confirms the cluster in the dialog the controller opened
ControllerClusterSelected ==
    /\ kpc = "assembled"
    /\ shown_result' = OnClusterSelected(shown_result, cluster_matches)
    /\ kpc' = "selected"
    /\ UNCHANGED <<rlap_cos_present, max_output_templates, cluster_matches>>
    /\ UNCHANGED <<cvars, gvars, svars, ivars, wvars, qvars, avars, rvars, fvars, uvars, zvars, dvars>>

\* the user confirms the cluster in the dialog of the Analysis menu
MenuClusterSelected ==
    /\ kpc \in {"assembled", "selected"}
    /\ shown_result' = OnClusterSelected(shown_result, cluster_matches)
    /\ kpc' = "selected"
    /\ UNCHANGED <<rlap_cos_present, max_output_templates, cluster_matches>>
    /\ UNCHANGED <<cvars, gvars, svars, ivars, wvars, qvars, avars, rvars, fvars, uvars, zvars, dvars>>

NextSelection ==
    \/ ClusterGainsMatch
    \/ ResultAssembled
    \/ ControllerClusterSelected
    \/ MenuClusterSelected

SpecSelection == InitSelection /\ [][NextSelection]_vars

\* a list in non-strict descending order of the best metric
DescendingByBestMetric(s) ==
    \A i, j \in 1..Len(s) :
        i < j => GetBestMetricValue(s[i]) >= GetBestMetricValue(s[j])

\* C15 as claimed: after a cluster is chosen, filtered_matches is sorted by best
\* metric descending and has at most max_output_templates entries.
C15_FilteredMatchesLimited ==
    kpc = "selected" =>
        /\ DescendingByBestMetric(shown_result.filtered_matches)
        /\ Len(shown_result.filtered_matches) <= max_output_templates

\* C16: best_matches is in non-strict descending order of the selected metric
\* (rlap_cos when the matches carry it, rlap otherwise), as assembled and after a
\* cluster selection has replaced the list.
C16_BestMatchesSorted ==
    kpc \in {"assembled", "selected"} =>
        DescendingByBestMetric(shown_result.best_matches)

\* C16 witness: a selection has replaced best_matches by the matches of a cluster
\* whose own order was not descending
C16_Witness ==
    /\ kpc = "selected"
    /\ ~ DescendingByBestMetric(cluster_matches)
    /\ Len(shown_result.best_matches) >= 3
    /\ GetBestMetricValue(shown_result.best_matches[1]) >
          GetBestMetricValue(shown_result.best_matches[Len(shown_result.best_matches)])

-----------------------------------------------------------------------------
(* The redshift quality of a cluster: _perform_direct_gmm_clustering and *)
(* _create_single_cluster_result                                         *)

MaxClusterRedshifts == 3

\* quality_threshold in thousandths of redshift; 0.02 is the default (line 82)
QualityThresholdChoices == {10, 20}

\* the redshifts of matches, in thousandths
RedshiftChoices == {0, 10, 20, 40, 50, 90}

\* np.max(r) - np.min(r) of a non-empty array
SpanOf(r) ==
    LET hi == CHOOSE x \in {r[i] : i \in 1..Len(r)} : \A i \in 1..Len(r) : r[i] <= x
        lo == CHOOSE x \in {r[i] : i \in 1..Len(r)} : \A i \in 1..Len(r) : x <= r[i]
    IN  hi - lo

\* lines 370-381: the cluster built from a GMM component
GmmClusterInfo(r, q) ==
    LET redshift_span == SpanOf(r)
    IN  [present |-> TRUE, cluster_method |-> "direct_gmm",
         redshift_span |-> redshift_span,
         redshift_quality |->
             IF redshift_span <= q THEN "tight"
             ELSE IF redshift_span <= q * 2 THEN "moderate"
             ELSE IF redshift_span <= q * 4 THEN "loose"
             ELSE "very_loose"]

\* lines 448-459: the cluster _create_single_cluster_result builds
SingleClusterInfo(r, q) ==
    LET redshift_span == IF Len(r) > 1 THEN SpanOf(r) ELSE 0
    IN  [present |-> TRUE, cluster_method |-> "single_cluster",
         redshift_span |-> redshift_span,
         redshift_quality |->
             IF redshift_span <= q THEN "tight"
             ELSE IF redshift_span <= q * 2 THEN "moderate"
             ELSE "loose"]

InitQuality ==
    /\ IdleCluster
    /\ InitController
    /\ IdleSubtype
    /\ IdleCli
    /\ IdleRedshift
    /\ IdleWizard
    /\ IdleSession
    /\ IdleSavgol
    /\ IdleGrid
    /\ IdleSelection
    /\ IdleApodize
    /\ IdleRepeat
    /\ quality_threshold \in QualityThresholdChoices
    /\ redshifts = <<>>
    /\ cluster_info = NoClusterInfo
    /\ qpc = "collect"

\* one more match of the type falls into the cluster
ClusterGainsRedshift ==
    /\ qpc = "collect"
    /\ Len(redshifts) < MaxClusterRedshifts
    /\ \E z \in RedshiftChoices : redshifts' = Append(redshifts, z)
    /\ UNCHANGED <<quality_threshold, cluster_info, qpc>>
    /\ UNCHANGED <<cvars, gvars, svars, ivars, wvars, kvars, avars, rvars, fvars, uvars, zvars, dvars>>

\* the cluster is a component of the fitted mixture (lines 358-381)
GmmComponentBuilt ==
    /\ qpc = "collect"
    /\ redshifts # <<>>
    /\ cluster_info' = GmmClusterInfo(redshifts, quality_threshold)
    /\ qpc' = "built"
    /\ UNCHANGED <<quality_threshold, redshifts>>
    /\ UNCHANGED <<cvars, gvars, svars, ivars, wvars, kvars, avars, rvars, fvars, uvars, zvars, dvars>>

\* the type is too small for a mixture, or max_clusters_per_type is below 2, and
\* all its matches form the single cluster (lines 320-324, 438-459)
SingleClusterBuilt ==
    /\ qpc = "collect"
    /\ redshifts # <<>>
    /\ cluster_info' = SingleClusterInfo(redshifts, quality_threshold)
    /\ qpc' = "built"
    /\ UNCHANGED <<quality_threshold, redshifts>>
    /\ UNCHANGED <<cvars, gvars, svars, ivars, wvars, kvars, avars, rvars, fvars, uvars, zvars, dvars>>

NextQuality ==
    \/ ClusterGainsRedshift
    \/ GmmComponentBuilt
    \/ SingleClusterBuilt

SpecQuality == InitQuality /\ [][NextQuality]_vars

\* C17 as claimed: whichever path built the cluster, its redshift_quality is tight
\* if its redshift span is at most q, moderate if at most 2q, loose if at most 4q
\* and very_loose otherwise, q being quality_threshold.
C17_RedshiftQuality ==
    cluster_info.present =>
        LET span == SpanOf(redshifts)
            q == quality_threshold
        IN  /\ cluster_info.redshift_span = span
            /\ cluster_info.redshift_quality =
                  (CASE span <= q -> "tight"
                     [] span > q /\ span <= 2 * q -> "moderate"
                     [] span > 2 * q /\ span <= 4 * q -> "loose"
                     [] OTHER -> "very_loose")

-----------------------------------------------------------------------------
(* Apodization: apodize of snid/preprocessing.py and finish_preprocessing of *)
(* the advanced preprocessing dialog                                          *)

MaxBins == 6

FluxChoices == {0, 1, 2}

\* percentages of the taper; with the arrays above the ramp has at most two samples
PercentChoices == {0, 10, 30}

\* apodize_percent of finish_preprocessing
DialogApodizePercent == 10

\* Python's round() of num / den: to the nearest integer, a tie to the even one
RoundHalfEven(num, den) ==
    LET q == num \div den
        r == num % den
    IN  IF 2 * r < den THEN q
        ELSE IF 2 * r > den THEN q + 1
        ELSE IF q % 2 = 0 THEN q ELSE q + 1

\* ramp[j] of lines 258-261 for ns samples: [0.0] for one sample, and
\* 0.5 * (1 - cos(pi * j / (ns - 1))) otherwise, which is 0 at j = 0 and 1 at j = ns - 1
Ramp(ns, j) == IF ns = 1 \/ j = 0 THEN 0 ELSE 1

\* apodize(arr, n1, n2, percent), lines 236-271; n1 and n2 count from 0
Apodize(arr, n1, n2, percent) ==
    IF ~ (0 <= n1 /\ n1 <= n2 /\ n2 < Len(arr)) THEN arr
    ELSE IF percent <= 0 THEN arr
    ELSE LET valid_data_len == n2 - n1 + 1
             ns == Min(RoundHalfEven(valid_data_len * percent, 100), valid_data_len \div 2)
         IN  IF ns < 1 THEN arr
             ELSE IF n1 + ns > Len(arr) \/ n2 - ns + 1 < 0 THEN arr
             ELSE [i \in 1..Len(arr) |->
                      LET k == i - 1
                          left == IF k >= n1 /\ k < n1 + ns
                                  THEN arr[i] * Ramp(ns, k - n1) ELSE arr[i]
                      IN  IF k >= n2 - ns + 1 /\ k <= n2
                          THEN left * Ramp(ns, n2 - k) ELSE left]

\* np.nonzero(flat_spectrum)[0], counted from 0
NonZero(flat) == {i - 1 : i \in {j \in 1..Len(flat) : flat[j] # 0}}

SetMin(S) == CHOOSE x \in S : \A y \in S : x <= y

SetMax(S) == CHOOSE x \in S : \A y \in S : y <= x

\* finish_preprocessing, lines 1259-1343: flat_spectrum is the final flux after a
\* continuum step and zero without one; tapered_flux is apodize(flat_spectrum, l1, l2,
\* percent=10.0) whatever the dialog's apodization settings are
FinishPreprocessing(flux, has_continuum_step) ==
    LET flat_spectrum == IF has_continuum_step THEN flux ELSE [i \in 1..Len(flux) |-> 0]
        nz == NonZero(flat_spectrum)
        l1 == IF nz # {} THEN SetMin(nz) ELSE 0
        l2 == IF nz # {} THEN SetMax(nz) ELSE Len(flat_spectrum) - 1
    IN  [flat_flux |-> flat_spectrum,
         tapered_flux |-> Apodize(flat_spectrum, l1, l2, DialogApodizePercent)]

InitApodize ==
    /\ IdleCluster
    /\ InitController
    /\ IdleSubtype
    /\ IdleCli
    /\ IdleRedshift
    /\ IdleWizard
    /\ IdleSession
    /\ IdleSavgol
    /\ IdleGrid
    /\ IdleSelection
    /\ IdleQuality
    /\ IdleRepeat
    /\ final_flux = <<>>
    /\ apply_apodization \in BOOLEAN
    /\ apod_percent \in PercentChoices
    /\ processed = NoProcessed
    /\ apc = "collect"

\* the spectrum has one more bin
FluxGainsBin ==
    /\ apc = "collect"
    /\ Len(final_flux) < MaxBins
    /\ \E f \in FluxChoices : final_flux' = Append(final_flux, f)
    /\ UNCHANGED <<apply_apodization, apod_percent, processed, apc>>
    /\ UNCHANGED <<cvars, gvars, svars, ivars, wvars, kvars, qvars, rvars, fvars, uvars, zvars, dvars>>

\* apodize is called on the flux between two indices with the percentage asked for
ApodizeCalled ==
    /\ apc = "collect"
    /\ final_flux # <<>>
    /\ \E n1, n2 \in 0..Len(final_flux) :
          processed' = [flat_flux |-> final_flux,
                        tapered_flux |-> Apodize(final_flux, n1, n2, apod_percent)]
    /\ apc' = "apodized"
    /\ UNCHANGED <<final_flux, apply_apodization, apod_percent>>
    /\ UNCHANGED <<cvars, gvars, svars, ivars, wvars, kvars, qvars, rvars, fvars, uvars, zvars, dvars>>

\* the user presses Finish in the advanced preprocessing dialog; without the check
\* box, or with 0 percent, no step has tapered the final flux (lines 1449-1453)
DialogFinished ==
    /\ apc = "collect"
    /\ final_flux # <<>>
    /\ \E has_continuum_step \in BOOLEAN :
          processed' = FinishPreprocessing(final_flux, has_continuum_step)
    /\ apc' = "finished"
    /\ UNCHANGED <<final_flux, apply_apodization, apod_percent>>
    /\ UNCHANGED <<cvars, gvars, svars, ivars, wvars, kvars, qvars, rvars, fvars, uvars, zvars, dvars>>

NextApodize ==
    \/ FluxGainsBin
    \/ ApodizeCalled
    \/ DialogFinished

SpecApodize == InitApodize /\ [][NextApodize]_vars

\* C18 as claimed: with percent = 0, or with apodization disabled, the tapered_flux
\* of the spectrum produced equals its flat_flux, for apodize itself and for the
\* final result of the advanced preprocessing dialog.
C18_ZeroPercentIdentity ==
    /\ (apc = "apodized" /\ apod_percent = 0) =>
          processed.tapered_flux = processed.flat_flux
    /\ (apc = "finished" /\ (~ apply_apodization \/ apod_percent = 0)) =>
          processed.tapered_flux = processed.flat_flux

-----------------------------------------------------------------------------
(* The clustering step run twice on the same matches and configuration *)

MaxRunMatches == 3

\* time.time() - start_time of a run, in milliseconds
ElapsedChoices == {1, 2}

\* the mixture was not fitted for the type: the fit raised, or it was not asked for
NotFitted == [fitted |-> FALSE, K |-> 0, labels |-> <<>>]

\* what the fit of lines 327-350 can yield for a type with n matches: an exception,
\* or the model of minimum BIC among 1..max_clusters_actual components with its labels
FitOutcomes(n, maxc) ==
    IF MaxClustersActual(n, maxc) < 2 THEN {NotFitted}
    ELSE {NotFitted} \cup
         UNION {[fitted : {TRUE}, K : {K}, labels : [1..n -> 0..(K - 1)]] :
                   K \in 1..MaxClustersActual(n, maxc)}

\* the fits of all types for the given matches
FitsOf(ms, maxc) ==
    {f \in [TypeNames -> UNION {FitOutcomes(Len(TypeMatches(ms, t)), maxc) : t \in TypeNames}] :
        \A t \in TypeNames : f[t] \in FitOutcomes(Len(TypeMatches(ms, t)), maxc)}

\* the same mixtures with the components of a two-component fit numbered the other
\* way round, as another initialization of the fit may number them
SwappedLabels(f) ==
    [t \in TypeNames |->
        IF f[t].fitted /\ f[t].K = 2
        THEN [f[t] EXCEPT !.labels = [i \in 1..Len(f[t].labels) |-> 1 - f[t].labels[i]]]
        ELSE f[t]]

\* a variant without random_state: each run gets the fit its own initialization yields
UnseededFit(seeded, fresh) == fresh

\* random_state=42 (line 333): the fit is a function of the redshifts alone
SeededFit(seeded, fresh) == seeded

\* lines 152-240: the candidates of the types in order; a type too small for a
\* mixture makes the loop raise KeyError (line 168)
RECURSIVE CandidatesOfTypes(_, _, _, _)
CandidatesOfTypes(types, ms, maxc, fit) ==
    IF types = <<>> THEN [raised |-> FALSE, cands |-> <<>>]
    ELSE LET before == CandidatesOfTypes(Front(types), ms, maxc, fit)
             t == types[Len(types)]
             tm == TypeMatches(ms, t)
         IN  IF before.raised \/ MaxClustersActual(Len(tm), maxc) < 2
             THEN [raised |-> TRUE, cands |-> <<>>]
             ELSE IF ~ fit[t].fitted THEN before
             ELSE [raised |-> FALSE,
                   cands |-> before.cands \o GmmCandidates(t, tm, fit[t].labels, fit[t].K)]

\* perform_direct_gmm_clustering as a whole (lines 119-291)
ClusteringStep(ms, minm, maxc, fit, elapsed) ==
    LET types == FilteredTypes(ms, minm)
        built == CandidatesOfTypes(types, ms, maxc, fit)
        scored == ScoreAll(built.cands)
    IN  IF types = <<>>
        THEN [success |-> FALSE, reason |-> "insufficient_matches"]
        ELSE IF built.raised
        THEN [success |-> FALSE, reason |-> "KeyError"]
        ELSE IF built.cands = <<>>
        THEN [success |-> FALSE, reason |-> "no_clusters"]
        ELSE [success |-> TRUE, reason |-> "",
              best_cluster |-> WinningCluster(scored),
              all_candidates |-> scored,
              total_computation_time |-> elapsed,
              n_types_clustered |-> Len(types),
              total_candidates |-> Len(scored)]

InitRepeat ==
    /\ IdleCluster
    /\ InitController
    /\ IdleSubtype
    /\ IdleCli
    /\ IdleRedshift
    /\ IdleWizard
    /\ IdleSession
    /\ IdleSavgol
    /\ IdleGrid
    /\ IdleSelection
    /\ IdleQuality
    /\ IdleApodize
    /\ run_matches = <<>>
    /\ run_min_matches \in MinMatchesChoices
    /\ run_max_clusters \in MaxClustersChoices
    /\ gmm_fit = <<>>
    /\ run_results = <<>>
    /\ rpc = "collect"

\* one more match is part of the input, the list sorted by metric, best first
RunGainsMatch ==
    /\ rpc = "collect"
    /\ Len(run_matches) < MaxRunMatches
    /\ \E m \in MatchKinds :
          /\ IF run_matches = <<>> THEN TRUE
             ELSE run_matches[Len(run_matches)].metric >= m.metric
          /\ run_matches' = Append(run_matches, m)
    /\ UNCHANGED <<run_min_matches, run_max_clusters, gmm_fit, run_results, rpc>>
    /\ UNCHANGED <<cvars, gvars, svars, ivars, wvars, kvars, qvars, avars, fvars, uvars, zvars, dvars>>

\* the input is complete; with the seed fixed it determines what the fits yield
InputFixed ==
    /\ rpc = "collect"
    /\ gmm_fit' \in FitsOf(run_matches, run_max_clusters)
    /\ rpc' = "run"
    /\ UNCHANGED <<run_matches, run_min_matches, run_max_clusters, run_results>>
    /\ UNCHANGED <<cvars, gvars, svars, ivars, wvars, kvars, qvars, avars, fvars, uvars, zvars, dvars>>

\* one run of perform_direct_gmm_clustering on the input
RunClustering ==
    /\ rpc = "run"
    /\ Len(run_results) < 2
    /\ \E elapsed \in ElapsedChoices :
       \E fresh \in {gmm_fit, SwappedLabels(gmm_fit)} :
          run_results' =
              Append(run_results,
                     ClusteringStep(run_matches, run_min_matches, run_max_clusters,
                                    SeededFit(gmm_fit, fresh), elapsed))
    /\ UNCHANGED <<run_matches, run_min_matches, run_max_clusters, gmm_fit, rpc>>
    /\ UNCHANGED <<cvars, gvars, svars, ivars, wvars, kvars, qvars, avars, fvars, uvars, zvars, dvars>>

NextRepeat ==
    \/ RunGainsMatch
    \/ InputFixed
    \/ RunClustering

SpecRepeat == InitRepeat /\ [][NextRepeat]_vars

\* the returned dictionary without its timing field
WithoutTiming(r) ==
    IF r.success THEN [r EXCEPT !.total_computation_time = 0] ELSE r

-----------------------------------------------------------------------------
(* The second-best subtype *)

\* C20 as claimed: whenever at least two subtypes have members, the subtype returned
\* as second-best is a different subtype from best_subtype and has the highest
\* subtype_score among the subtypes other than best_subtype.
C20_SecondBestSubtype ==
    (spc = "returned" /\ Len(subtype_scores) >= 2) =>
        /\ second_best_subtype # best_subtype
        /\ \E i \in 1..Len(subtype_scores) :
              /\ subtype_scores[i].subtype = second_best_subtype
              /\ \A j \in 1..Len(subtype_scores) :
                    subtype_scores[j].subtype # best_subtype =>
                        subtype_scores[j].score <= subtype_scores[i].score

-----------------------------------------------------------------------------
(* The confidence assessment of the cluster selection *)

\* the highest penalized score among the candidates
HighestScore ==
    CHOOSE v \in {all_cluster_candidates[i].penalized_score :
                     i \in 1..Len(all_cluster_candidates)} :
        \A i \in 1..Len(all_cluster_candidates) :
            all_cluster_candidates[i].penalized_score <= v

\* the highest penalized score among the candidates other than one that holds the
\* highest
SecondHighestScore ==
    LET b == CHOOSE i \in 1..Len(all_cluster_candidates) :
                 all_cluster_candidates[i].penalized_score = HighestScore
        rest == {all_cluster_candidates[i].penalized_score :
                     i \in (1..Len(all_cluster_candidates)) \ {b}}
    IN  CHOOSE v \in rest : \A w \in rest : w <= v

\* C21: with relative_margin = (best - second) / second over the two highest
\* penalized scores, confidence_level is high if the relative margin is at least
\* 0.30, medium if at least 0.15, low if at least 0.05, and very_low otherwise.
C21_ConfidenceLevel ==
    (/\ clustering_results.state = "Succeeded"
     /\ Len(all_cluster_candidates) >= 2
     /\ SecondHighestScore > 0) =>
        \* every score is a whole number of hundreds of units
        LET margin == (HighestScore - SecondHighestScore) \div 100
            second == SecondHighestScore \div 100
            level == confidence_assessment.confidence_level
        IN  /\ level = "high" <=> 100 * margin >= 30 * second
            /\ level = "medium" <=> (100 * margin < 30 * second /\ 100 * margin >= 15 * second)
            /\ level = "low" <=> (100 * margin < 15 * second /\ 100 * margin >= 5 * second)
            /\ level = "very_low" <=> 100 * margin < 5 * second

\* C21 witness: a selection among several clusters whose winner is between 5% and
\* 15% ahead of the runner-up
C21_Witness ==
    /\ clustering_results.state = "Succeeded"
    /\ Len(all_cluster_candidates) >= 2
    /\ SecondHighestScore > 0
    /\ HighestScore > SecondHighestScore
    /\ confidence_assessment.confidence_level = "low"

-----------------------------------------------------------------------------
(* Savitzky-Golay smoothing: savgol_filter_fixed and savgol_filter_wavelength *)

MaxData == 5

SampleChoices == {0, 1, 2}
WindowChoices == 0..(MaxData + 2)
\* the default order where the data can hold a window that needs it, and an order
\* no window reaches
PolyorderChoices == {MaxData - 2, MaxData}
FwhmChoices == {0, 5, 10}
SpacingChoices == {1, 2}

RECURSIVE Binomial(_, _)
Binomial(n, k) ==
    IF k = 0 \/ k = n THEN 1 ELSE Binomial(n - 1, k - 1) + Binomial(n - 1, k)

\* the difference of order w - 1 over w samples: the one direction a polynomial of
\* degree w - 2 cannot follow
DiffVector(w) ==
    [k \in 1..w |-> (IF k % 2 = 1 THEN 1 ELSE -1) * Binomial(w - 1, k - 1)]

DiffNorm(w) == SumSeq([k \in 1..w |-> DiffVector(w)[k] * DiffVector(w)[k]])

DiffOf(data, start, w) ==
    SumSeq([k \in 1..w |-> DiffVector(w)[k] * data[start + k - 1]])

\* the first sample of the window whose fit gives sample i (mode='interp': the
\* samples near the edges are read off the fit of the first or last window)
WindowStart(i, n, w) ==
    LET halflen == w \div 2
    IN  IF i <= halflen THEN 1
        ELSE IF i > n - halflen THEN n - w + 1
        ELSE i - halflen

\* scipy.signal.savgol_filter(data, window_length, polyorder) for polyorder >=
\* window_length - 2, as the fraction num / den.  A polynomial of degree
\* window_length - 1 passes through every sample of its window; the least-squares
\* polynomial of degree window_length - 2 misses each sample by the projection of the
\* window on DiffVector
SavgolFilter(data, window_length, polyorder) ==
    IF polyorder >= window_length - 1
    THEN [raised |-> "", num |-> data, den |-> 1]
    ELSE [raised |-> "",
          num |-> [i \in 1..Len(data) |->
                     LET s == WindowStart(i, Len(data), window_length)
                     IN  DiffNorm(window_length) * data[i] -
                           DiffVector(window_length)[i - s + 1] *
                               DiffOf(data, s, window_length)],
          den |-> DiffNorm(window_length)]

\* data.copy()
Copy(data) == [raised |-> "", num |-> data, den |-> 1]

\* lines 99-103 and 161-165: the filter, and the original data if it raises; whether
\* an even window_length raises depends on the scipy release (accepts_even)
TrySavgolFilter(data, window_length, polyorder, accepts_even) ==
    IF window_length % 2 = 0 /\ ~accepts_even
    THEN Copy(data)
    ELSE SavgolFilter(data, window_length, polyorder)

\* savgol_filter_fixed(data, window_length, polyorder)
SavgolFilterFixed(data, window_length, polyorder, accepts_even) ==
    IF window_length < 3 THEN Copy(data)
    ELSE LET odd == IF window_length % 2 = 0 THEN window_length + 1 ELSE window_length
             clamped == Min(odd, Len(data))
         IN  IF clamped < 3 THEN Copy(data)
             ELSE TrySavgolFilter(data, clamped, Min(polyorder, clamped - 1), accepts_even)

\* lines 141-146: int(2 * (fwhm_angstrom / 2.35) / avg_dwl)
WindowLengthPixels(fwhm_angstrom, avg_dwl) == (200 * fwhm_angstrom) \div (235 * avg_dwl)

\* savgol_filter_wavelength(wave, data, fwhm_angstrom, polyorder) for a wave array of
\* the shape of data with the average spacing avg_dwl; with fewer than two samples
\* np.mean(np.diff(wave)) is nan and int() raises
SavgolFilterWavelength(avg_dwl, data, fwhm_angstrom, polyorder, accepts_even) ==
    IF fwhm_angstrom <= 0 THEN Copy(data)
    ELSE IF Len(data) < 2 THEN [raised |-> "ValueError", num |-> <<>>, den |-> 1]
    ELSE LET pixels == WindowLengthPixels(fwhm_angstrom, avg_dwl)
             atleast == IF pixels < 3 THEN 3 ELSE pixels
             odd == IF atleast % 2 = 0 THEN atleast + 1 ELSE atleast
             clamped == Min(odd, Len(data))
         IN  IF clamped < 3 THEN Copy(data)
             ELSE TrySavgolFilter(data, clamped, Min(polyorder, clamped - 1), accepts_even)

InitSavgol ==
    /\ IdleCluster
    /\ InitController
    /\ IdleSubtype
    /\ IdleCli
    /\ IdleRedshift
    /\ IdleWizard
    /\ IdleSession
    /\ IdleGrid
    /\ IdleSelection
    /\ IdleQuality
    /\ IdleApodize
    /\ IdleRepeat
    /\ sg_data = <<>>
    /\ sg_call = NoSavgolCall
    /\ sg_result = NoSavgolResult
    /\ fpc = "collect"

\* the spectrum to smooth has one more sample
DataGainsSample ==
    /\ fpc = "collect"
    /\ Len(sg_data) < MaxData
    /\ \E y \in SampleChoices : sg_data' = Append(sg_data, y)
    /\ UNCHANGED <<sg_call, sg_result, fpc>>
    /\ UNCHANGED <<cvars, gvars, svars, ivars, wvars, kvars, qvars, avars, rvars, uvars, zvars, dvars>>

CallSavgolFilterFixed ==
    /\ fpc = "collect"
    /\ \E window_length \in WindowChoices, polyorder \in PolyorderChoices,
          accepts_even \in BOOLEAN :
          /\ sg_call' = [function |-> "savgol_filter_fixed", window |-> window_length,
                         polyorder |-> polyorder]
          /\ sg_result' = SavgolFilterFixed(sg_data, window_length, polyorder, accepts_even)
    /\ fpc' = "done"
    /\ UNCHANGED sg_data
    /\ UNCHANGED <<cvars, gvars, svars, ivars, wvars, kvars, qvars, avars, rvars, uvars, zvars, dvars>>

CallSavgolFilterWavelength ==
    /\ fpc = "collect"
    /\ \E fwhm_angstrom \in FwhmChoices, avg_dwl \in SpacingChoices,
          polyorder \in PolyorderChoices, accepts_even \in BOOLEAN :
          /\ sg_call' = [function |-> "savgol_filter_wavelength",
                         window |-> WindowLengthPixels(fwhm_angstrom, avg_dwl),
                         polyorder |-> polyorder]
          /\ sg_result' =
                SavgolFilterWavelength(avg_dwl, sg_data, fwhm_angstrom, polyorder,
                                       accepts_even)
    /\ fpc' = "done"
    /\ UNCHANGED sg_data
    /\ UNCHANGED <<cvars, gvars, svars, ivars, wvars, kvars, qvars, avars, rvars, uvars, zvars, dvars>>

NextSavgol ==
    \/ DataGainsSample
    \/ CallSavgolFilterFixed
    \/ CallSavgolFilterWavelength

SpecSavgol == InitSavgol /\ [][NextSavgol]_vars

\* the returned flux equals the input flux
ReturnsInput ==
    /\ sg_result.raised = ""
    /\ Len(sg_result.num) = Len(sg_data)
    /\ \A i \in 1..Len(sg_data) : sg_result.num[i] = sg_result.den * sg_data[i]

\* C22: if the Savitzky-Golay window exceeds the data length, the smoothing step is
\* a no-op: the returned flux equals the input flux.
C22_WindowExceedsData ==
    (fpc = "done" /\ sg_call.window > Len(sg_data) /\ sg_result.raised = "") => ReturnsInput

-----------------------------------------------------------------------------
(* A session of PySide6AppController: the user's requests on the main thread, *)
(* the analysis threads, the progress dialog and the cluster selection dialog *)

MaxFiles == 2
MaxThreads == 2

\* what run_snid_analysis may return for the spectrum of a file: a successful result
\* with or without clusters to choose from, or an unsuccessful result
PipelineOutcomes(file) ==
    {[present |-> TRUE, from |-> file, success |-> TRUE, clustering |-> TRUE],
     [present |-> TRUE, from |-> file, success |-> TRUE, clustering |-> FALSE],
     [present |-> TRUE, from |-> file, success |-> FALSE, clustering |-> FALSE]}

\* the main window takes the user's input: no modal dialog is on screen
MainWindowFree == progress_dialog # "shown" /\ ~ selection_dialog.open

Executing(t) == t.pc # "done"

\* update_workflow_state (lines 137-145) called on the given thread
UpdateWorkflowState(new_state, thread) ==
    /\ workflow_state' = new_state
    /\ window_calls' =
          window_calls \cup {[method |-> "update_workflow_state", thread |-> thread]}

\* _complete_analysis_workflow (lines 824-856) called on the given thread; the
\* results display is queued to the main thread (lines 842-851)
SessionCompleteWorkflow(result, thread) ==
    /\ workflow_state' = "ANALYSIS_COMPLETE"
    /\ session_results' = result
    /\ window_calls' =
          window_calls \cup
              {[method |-> "update_workflow_state", thread |-> thread]} \cup
              (IF result.present /\ result.success
               THEN {[method |-> "update_results_display", thread |-> "main"]}
               ELSE {})

\* how the result an analysis_completed signal stands for came out
KindOf(result) ==
    IF ~ result.present THEN "none"
    ELSE IF result.success THEN "success" ELSE "unsuccessful"

\* load_spectrum_file (lines 152-187) when the file can be read
SessionLoadFile ==
    /\ MainWindowFree
    /\ \E f \in 1..MaxFiles : original_from' = f
    /\ UpdateWorkflowState("FILE_LOADED", "main")
    /\ after_reset' = FALSE
    /\ UNCHANGED <<processed_from, session_results, running_flag, threads,
                   progress_dialog, selection_request, selection_dialog,
                   callback_calls, emitted>>
    /\ UNCHANGED <<cvars, gvars, svars, ivars, wvars, kvars, qvars, avars, rvars, fvars, zvars, dvars>>

\* run_preprocessing (lines 311-372) when preprocess_spectrum succeeds
SessionPreprocess ==
    /\ MainWindowFree
    /\ original_from # 0
    /\ processed_from' = original_from
    /\ UpdateWorkflowState("PREPROCESSED", "main")
    /\ UNCHANGED <<original_from, session_results, running_flag, threads,
                   progress_dialog, selection_request, selection_dialog,
                   callback_calls, emitted, after_reset>>
    /\ UNCHANGED <<cvars, gvars, svars, ivars, wvars, kvars, qvars, avars, rvars, fvars, zvars, dvars>>

\* AnalysisMenuManager.run_quick_analysis (lines 165-243) past its first test, the
\* user agreeing to the quick preprocessing: a new progress dialog, run_analysis
\* (lines 375-424) and, when it returns True, _handle_analysis_success (lines 376-403)
SessionQuickAnalysis ==
    /\ MainWindowFree
    /\ original_from # 0 \/ processed_from # 0
    /\ Len(threads) < MaxThreads
    /\ processed_from' = IF processed_from = 0 THEN original_from ELSE processed_from
    /\ progress_dialog' = "shown"
    /\ IF original_from = 0
       THEN /\ threads' = threads
            /\ UNCHANGED <<workflow_state, window_calls>>
       ELSE /\ threads' = Append(threads, [pc |-> "begin", spectrum |-> 0, loaded |-> 0])
            /\ UpdateWorkflowState("ANALYSIS_COMPLETE", "main")
    /\ UNCHANGED <<original_from, session_results, running_flag, selection_request,
                   selection_dialog, callback_calls, emitted, after_reset>>
    /\ UNCHANGED <<cvars, gvars, svars, ivars, wvars, kvars, qvars, avars, rvars, fvars, zvars, dvars>>

\* AnalysisProgressDialog._on_hide (lines 377-382): the analysis continues
HideProgressDialog ==
    /\ progress_dialog = "shown"
    /\ ~ selection_dialog.open
    /\ progress_dialog' = "hidden"
    /\ UNCHANGED <<original_from, processed_from, session_results, workflow_state,
                   running_flag, threads, selection_request, selection_dialog,
                   callback_calls, window_calls, emitted, after_reset>>
    /\ UNCHANGED <<cvars, gvars, svars, ivars, wvars, kvars, qvars, avars, rvars, fvars, zvars, dvars>>

\* reset_to_initial_state (lines 750-793)
SessionReset ==
    /\ MainWindowFree
    /\ original_from' = 0
    /\ processed_from' = 0
    /\ session_results' = NoSessionResult
    /\ UpdateWorkflowState("INITIAL", "main")
    /\ after_reset' = TRUE
    /\ UNCHANGED <<running_flag, threads, progress_dialog, selection_request,
                   selection_dialog, callback_calls, emitted>>
    /\ UNCHANGED <<cvars, gvars, svars, ivars, wvars, kvars, qvars, avars, rvars, fvars, zvars, dvars>>

\* the except branch of _run_analysis_thread (lines 630-665)
SessionThreadExcept(i) ==
    /\ running_flag' = FALSE
    /\ session_results' = NoSessionResult
    /\ emitted' = emitted \cup {[value |-> FALSE, kind |-> "exception"]}
    /\ threads' = [threads EXCEPT ![i].pc = "done"]

\* _run_analysis_thread, lines 455-493: the running flag, and the preprocessing of
\* the original spectrum if there is no processed spectrum
SessionThreadBegin ==
    /\ \E i \in 1..Len(threads) :
          /\ threads[i].pc = "begin"
          /\ IF processed_from = 0 /\ original_from = 0
             THEN /\ SessionThreadExcept(i)
                  /\ UNCHANGED processed_from
             ELSE /\ running_flag' = TRUE
                  /\ processed_from' =
                        IF processed_from = 0 THEN original_from ELSE processed_from
                  /\ threads' = [threads EXCEPT ![i].pc = "call"]
                  /\ UNCHANGED <<session_results, emitted>>
    /\ UNCHANGED <<original_from, workflow_state, progress_dialog, selection_request,
                   selection_dialog, callback_calls, window_calls, after_reset>>
    /\ UNCHANGED <<cvars, gvars, svars, ivars, wvars, kvars, qvars, avars, rvars, fvars, zvars, dvars>>

\* _run_analysis_thread, lines 495-576: run_snid_analysis is called with
\* self.processed_spectrum as it is then; without one the call raises
SessionThreadCall ==
    /\ \E i \in 1..Len(threads) :
          /\ threads[i].pc = "call"
          /\ IF processed_from = 0
             THEN SessionThreadExcept(i)
             ELSE /\ threads' = [threads EXCEPT ![i] =
                        [pc |-> "pipeline", spectrum |-> processed_from,
                         loaded |-> original_from]]
                  /\ UNCHANGED <<running_flag, session_results, emitted>>
    /\ UNCHANGED <<original_from, processed_from, workflow_state, progress_dialog,
                   selection_request, selection_dialog, callback_calls, window_calls,
                   after_reset>>
    /\ UNCHANGED <<cvars, gvars, svars, ivars, wvars, kvars, qvars, avars, rvars, fvars, zvars, dvars>>

\* _run_analysis_thread, lines 574-628: run_snid_analysis returns, the result is
\* stored and either a cluster selection is requested or the workflow is completed
SessionThreadReturns ==
    /\ \E i \in 1..Len(threads) :
          /\ threads[i].pc = "pipeline"
          /\ \E result \in PipelineOutcomes(threads[i].spectrum) :
                IF result.clustering
                THEN /\ session_results' = result
                     /\ selection_request' = result
                     /\ UNCHANGED <<workflow_state, window_calls, emitted>>
                ELSE /\ SessionCompleteWorkflow(result, "analysis")
                     /\ emitted' = emitted \cup {[value |-> TRUE, kind |-> KindOf(result)]}
                     /\ UNCHANGED selection_request
          /\ threads' = [threads EXCEPT ![i].pc = "done"]
    /\ running_flag' = FALSE
    /\ UNCHANGED <<original_from, processed_from, progress_dialog, selection_dialog,
                   callback_calls, after_reset>>
    /\ UNCHANGED <<cvars, gvars, svars, ivars, wvars, kvars, qvars, avars, rvars, fvars, zvars, dvars>>

\* run_snid_analysis raises
SessionThreadRaises ==
    /\ \E i \in 1..Len(threads) :
          /\ threads[i].pc = "pipeline"
          /\ SessionThreadExcept(i)
    /\ UNCHANGED <<original_from, processed_from, workflow_state, progress_dialog,
                   selection_request, selection_dialog, callback_calls, window_calls,
                   after_reset>>
    /\ UNCHANGED <<cvars, gvars, svars, ivars, wvars, kvars, qvars, avars, rvars, fvars, zvars, dvars>>

\* the main thread receives cluster_selection_needed and opens the dialog with the
\* controller's on_cluster_selected as callback (show_cluster_selection_dialog, lines
\* 805-836); building the dialog may fail (lines 128-144)
OpenSelectionDialog ==
    /\ selection_request.present
    /\ ~ selection_dialog.open
    /\ \E init_error \in BOOLEAN :
          selection_dialog' =
              [open |-> TRUE, result |-> selection_request, init_error |-> init_error]
    /\ selection_request' = NoSessionResult
    /\ UNCHANGED <<original_from, processed_from, session_results, workflow_state,
                   running_flag, threads, progress_dialog, callback_calls, window_calls,
                   emitted, after_reset>>
    /\ UNCHANGED <<cvars, gvars, svars, ivars, wvars, kvars, qvars, avars, rvars, fvars, zvars, dvars>>

\* on_cluster_selected of the controller (lines 899-972) on the main thread: the
\* workflow is completed and analysis_completed(True) emitted, in the try block
\* (lines 960-963) and in the except block (lines 971-972) alike
SessionClusterSelected(result, raised) ==
    /\ SessionCompleteWorkflow(result, "main")
    /\ emitted' =
          emitted \cup
              {[value |-> TRUE, kind |-> IF raised THEN "selection_error" ELSE KindOf(result)]}

\* the dialog leaves the screen having called its callback this many times
DialogCloses(calls) ==
    /\ selection_dialog' = NoSelectionDialog
    /\ callback_calls' = Append(callback_calls, calls)

\* _confirm_selection (lines 758-772): the callback, then accept()
ConfirmSelection ==
    /\ selection_dialog.open
    /\ ~ selection_dialog.init_error
    /\ \E raised \in BOOLEAN : SessionClusterSelected(selection_dialog.result, raised)
    /\ DialogCloses(1)
    /\ UNCHANGED <<original_from, processed_from, running_flag, threads, progress_dialog,
                   selection_request, after_reset>>
    /\ UNCHANGED <<cvars, gvars, svars, ivars, wvars, kvars, qvars, avars, rvars, fvars, zvars, dvars>>

\* the window is closed, or the timer set after an initialization error fires:
\* _auto_select_and_close (lines 779-797) calls the callback with the automatic best
\* cluster, then reject()
AutoSelectAndClose ==
    /\ selection_dialog.open
    /\ \E raised \in BOOLEAN : SessionClusterSelected(selection_dialog.result, raised)
    /\ DialogCloses(1)
    /\ UNCHANGED <<original_from, processed_from, running_flag, threads, progress_dialog,
                   selection_request, after_reset>>
    /\ UNCHANGED <<cvars, gvars, svars, ivars, wvars, kvars, qvars, avars, rvars, fvars, zvars, dvars>>

\* Escape: QDialog.keyPressEvent calls reject(), which the dialog does not override;
\* reject() hides the dialog without a close event
EscapePressed ==
    /\ selection_dialog.open
    /\ ~ selection_dialog.init_error
    /\ DialogCloses(0)
    /\ UNCHANGED <<original_from, processed_from, session_results, workflow_state,
                   running_flag, threads, progress_dialog, selection_request,
                   window_calls, emitted, after_reset>>
    /\ UNCHANGED <<cvars, gvars, svars, ivars, wvars, kvars, qvars, avars, rvars, fvars, zvars, dvars>>

InitSession ==
    /\ IdleCluster
    /\ InitController
    /\ IdleSubtype
    /\ IdleCli
    /\ IdleRedshift
    /\ IdleWizard
    /\ IdleSavgol
    /\ IdleGrid
    /\ IdleSelection
    /\ IdleQuality
    /\ IdleApodize
    /\ IdleRepeat
    /\ original_from = 0
    /\ processed_from = 0
    /\ session_results = NoSessionResult
    /\ workflow_state = "INITIAL"
    /\ running_flag = FALSE
    /\ threads = <<>>
    /\ progress_dialog = "none"
    /\ selection_request = NoSessionResult
    /\ selection_dialog = NoSelectionDialog
    /\ callback_calls = <<>>
    /\ window_calls = {}
    /\ emitted = {}
    /\ after_reset = FALSE

NextSession ==
    \/ SessionLoadFile
    \/ SessionPreprocess
    \/ SessionQuickAnalysis
    \/ HideProgressDialog
    \/ SessionReset
    \/ SessionThreadBegin
    \/ SessionThreadCall
    \/ SessionThreadReturns
    \/ SessionThreadRaises
    \/ OpenSelectionDialog
    \/ ConfirmSelection
    \/ AutoSelectAndClose
    \/ EscapePressed

SpecSession == InitSession /\ [][NextSession]_vars

\* C24 as claimed: while an analysis runs in the background thread, every update
\* that touches the GUI is executed on the main thread; the analysis thread never
\* calls main-window methods directly.
C24_GuiOnMainThread ==
    \A c \in window_calls : c.thread = "main"

\* C25 as claimed: at most one analysis thread is executing at any time: requesting
\* an analysis while one is already running does not start a second concurrent run.
C25_OneThreadAtATime ==
    Cardinality({i \in 1..Len(threads) : Executing(threads[i])}) <= 1

\* C26 as claimed: the workflow state is ANALYSIS_COMPLETE only if an analysis has
\* actually finished and its successful result is stored in snid_results; never
\* while the analysis is still running or after it failed.
C26_CompleteMeansSuccess ==
    workflow_state = "ANALYSIS_COMPLETE" =>
        /\ \A i \in 1..Len(threads) : ~ Executing(threads[i])
        /\ session_results.present
        /\ session_results.success

\* C27 as claimed: after clustering requests a user cluster selection, the selection
\* callback is invoked exactly once however the dialog is closed.
C27_CallbackExactlyOnce ==
    \A i \in 1..Len(callback_calls) : callback_calls[i] = 1

\* C28 as claimed: analysis_completed carries True only when the finished analysis
\* produced a result with success = true, and False when the analysis returned no
\* result or an unsuccessful result, or when handling the cluster selection raised.
C28_CompletedCarriesSuccess ==
    \A e \in emitted : e.value = (e.kind = "success")

\* C29 as claimed: an analysis always runs on a processed spectrum derived from the
\* currently loaded file: after a new file is loaded, a processed spectrum obtained
\* from the previously loaded file is never used for analysis or shown as the
\* current spectrum.
C29_SpectrumOfLoadedFile ==
    /\ (original_from # 0 /\ processed_from # 0) => processed_from = original_from
    /\ \A i \in 1..Len(threads) :
          (threads[i].spectrum # 0 /\ threads[i].loaded # 0) =>
              threads[i].spectrum = threads[i].loaded

\* C30 as claimed: after reset_to_initial_state the controller stays reset (state
\* INITIAL, no spectrum, no processed spectrum, no results) until the user loads a
\* file, even if an analysis thread was still running when the reset happened.
C30_StaysReset ==
    after_reset =>
        /\ workflow_state = "INITIAL"
        /\ original_from = 0
        /\ processed_from = 0
        /\ ~ session_results.present

\* C31 as claimed: is_analysis_running() is true whenever an analysis thread is
\* executing: from the moment run_analysis has returned True until that run has
\* failed, completed, or handed over to the cluster selection.
C31_RunningWhileExecuting ==
    (\E i \in 1..Len(threads) : Executing(threads[i])) => running_flag

-----------------------------------------------------------------------------
(* The advanced preprocessing wizard: apply_current_step, revert_to_previous_step *)
(* and finish_preprocessing of preprocessing_dialog.py, and the preview           *)
(* calculator they drive                                                           *)

\* self.total_steps
total_steps == 6

\* the longest applied_steps followed
MaxAppliedSteps == 5

\* the Applies that raise and the Reverts followed in one run of the wizard
MaxFailedApplies == 1

MaxReverts == 1

\* one entry of applied_steps: apply_step(type, ..., step_index=step_index)
Op(type, arg, step_index, percent) ==
    [type |-> type, arg |-> arg, step_index |-> step_index, percent |-> percent]

\* a call that is made or not
Maybe(made, op) == IF made THEN <<op>> ELSE <<>>

\* the apply_step calls _apply_step_0 .. _apply_step_4 make for the settings the
\* widgets can have; no call for the review step
StepCalls(step) ==
    IF step = 0 THEN
        {Maybe(mask, Op("masking", "", 0, 0)) \o Maybe(aband, Op("clipping", "aband", 0, 0))
            \o Maybe(sky, Op("clipping", "sky", 0, 0)) : mask \in BOOLEAN,
                                                          aband \in BOOLEAN, sky \in BOOLEAN}
    ELSE IF step = 1 THEN
        {<<>>, <<Op("savgol_filter", "fixed", 1, 0)>>, <<Op("savgol_filter", "wavelength", 1, 0)>>}
    ELSE IF step = 2 THEN
        {<<Op("log_rebin_with_scaling", "", 2, 0)>>}
    ELSE IF step = 3 THEN
        {<<>>, <<Op("interactive_continuum", "", 3, 0)>>,
         <<Op("continuum_fit", "spline", 3, 0)>>, <<Op("continuum_fit", "gaussian", 3, 0)>>}
    ELSE IF step = 4 THEN
        {<<>>} \cup {<<Op("apodization", "", 4, p)>> : p \in PercentChoices}
    ELSE {<<>>}

\* the preview calculator of the wizard
Calculator ==
    [applied_steps |-> applied_steps, stage_memory |-> stage_memory,
     current_stage_index |-> current_stage_index]

\* PySide6PreviewCalculator on construction and after reset(): stage -1 is the
\* original spectrum
CalcReset ==
    [applied_steps |-> <<>>, stage_memory |-> [s \in {-1} |-> <<>>],
     current_stage_index |-> -1]

\* apply_step(type, ..., step_index): the step joins applied_steps and the state
\* reached is stored as the stage of that step index
CalcApplyStep(calc, op) ==
    LET steps == Append(calc.applied_steps, op)
    IN  [applied_steps |-> steps,
         stage_memory |-> [s \in (DOMAIN calc.stage_memory) \cup {op.step_index} |->
                              IF s = op.step_index THEN steps ELSE calc.stage_memory[s]],
         current_stage_index |-> op.step_index]

RECURSIVE CalcApplyAll(_, _)
CalcApplyAll(calc, ops) ==
    IF ops = <<>> THEN calc
    ELSE CalcApplyAll(CalcApplyStep(calc, Head(ops)), Tail(ops))

\* navigate_to_stage(stage) for a stage held in memory: its state is restored
NavigateToStage(calc, stage) ==
    [calc EXCEPT !.applied_steps = calc.stage_memory[stage],
                 !.current_stage_index = stage]

SetCalculator(calc) ==
    /\ applied_steps' = calc.applied_steps
    /\ stage_memory' = calc.stage_memory
    /\ current_stage_index' = calc.current_stage_index

\* the mutation of ButtonTarget: the button is connected to finish_preprocessing at
\* every step
ButtonAlwaysFinish(step) == "finish_preprocessing"

\* _update_button_states, lines 1456-1490: what the Apply button is connected to
ButtonTarget(step) ==
    IF step = total_steps - 1 THEN "finish_preprocessing" ELSE "apply_current_step"

\* the step shown after reverting to a stage, line 1082
StepOfStage(previous_stage) == IF previous_stage > 0 THEN previous_stage ELSE 0

\* the dialog as constructed: _initialize_components ends with _update_step_display
InitWizard ==
    /\ IdleCluster
    /\ InitController
    /\ IdleSubtype
    /\ IdleCli
    /\ IdleRedshift
    /\ IdleSession
    /\ IdleSavgol
    /\ IdleGrid
    /\ IdleSelection
    /\ IdleQuality
    /\ IdleApodize
    /\ IdleRepeat
    /\ current_step = 0
    /\ applied_steps = CalcReset.applied_steps
    /\ stage_memory = CalcReset.stage_memory
    /\ current_stage_index = CalcReset.current_stage_index
    /\ apply_btn = ButtonTarget(0)
    /\ revert_enabled = FALSE
    /\ wizard_result = NoWizardResult
    /\ apply_log = <<>>
    /\ wizard_last = NoPress
    /\ wizard_count = [failed |-> 0, reverts |-> 0]

\* the Apply button while it is connected to apply_current_step, lines 1025-1062:
\* the calls of the step are made until one raises; without an exception the
\* buttons are updated and the wizard moves to the next step
ApplyCurrentStep ==
    /\ apply_btn = "apply_current_step"
    /\ ~ wizard_result.finished
    /\ \E calls \in StepCalls(current_step) : \E done \in 0..Len(calls) :
          LET calc == CalcApplyAll(Calculator, SubSeq(calls, 1, done))
              raised == done < Len(calls)
              entry == [step |-> current_step, before |-> applied_steps]
          IN  /\ Len(calc.applied_steps) <= MaxAppliedSteps
              /\ SetCalculator(calc)
              /\ raised => wizard_count.failed < MaxFailedApplies
              /\ wizard_count' = IF raised
                                 THEN [wizard_count EXCEPT !.failed = @ + 1]
                                 ELSE wizard_count
              /\ apply_log' = IF done > 0 THEN Append(apply_log, entry) ELSE apply_log
              /\ IF raised
                 THEN /\ wizard_last' = [kind |-> "apply_failed", step |-> current_step,
                                         state |-> applied_steps, effect |-> done > 0]
                      /\ UNCHANGED <<current_step, apply_btn, revert_enabled>>
                 ELSE /\ wizard_last' = [kind |-> "apply", step |-> current_step,
                                         state |-> applied_steps, effect |-> done > 0]
                      /\ current_step' = IF current_step < total_steps - 1
                                         THEN current_step + 1 ELSE current_step
                      /\ apply_btn' = ButtonTarget(current_step')
                      /\ revert_enabled' = (Len(calc.applied_steps) > 0)
    /\ UNCHANGED wizard_result
    /\ UNCHANGED <<cvars, gvars, svars, ivars, wvars, kvars, qvars, avars, rvars, fvars, uvars, dvars>>

\* the highest step_index among the remaining steps, lines 1122-1126
MaxStepIndex(steps) ==
    IF steps = <<>> THEN -1
    ELSE SetMax({steps[i].step_index : i \in 1..Len(steps)})

\* the Revert button, lines 1064-1135: the calculator goes to the stage below the
\* current one, the wizard shows the step of that stage's index and the stage left
\* is forgotten; when the current stage is not in memory the last applied step is
\* dropped and the others are replayed
RevertToPreviousStep ==
    /\ revert_enabled
    /\ ~ wizard_result.finished
    /\ wizard_count.reverts < MaxReverts
    /\ wizard_count' = [wizard_count EXCEPT !.reverts = @ + 1]
    /\ LET available_stages == DOMAIN stage_memory
           current_stage == current_stage_index
           lower == {s \in available_stages : s < current_stage}
           undone == IF apply_log = <<>>
                     THEN [step |-> current_step, before |-> applied_steps]
                     ELSE apply_log[Len(apply_log)]
           press == [kind |-> "revert", step |-> undone.step, state |-> undone.before,
                     effect |-> apply_log # <<>>]
       IN  IF current_stage \in available_stages
           THEN IF lower # {}
                THEN LET previous_stage == SetMax(lower)
                         calc == NavigateToStage(Calculator, previous_stage)
                     IN  /\ current_step' = StepOfStage(previous_stage)
                         /\ applied_steps' = calc.applied_steps
                         /\ current_stage_index' = calc.current_stage_index
                         /\ stage_memory' = [s \in available_stages \ {current_stage} |->
                                                stage_memory[s]]
                         /\ apply_btn' = ButtonTarget(current_step')
                         /\ revert_enabled' = (Len(calc.applied_steps) > 0)
                         /\ apply_log' = IF apply_log = <<>> THEN <<>> ELSE Front(apply_log)
                         /\ wizard_last' = press
                ELSE /\ wizard_last' = [press EXCEPT !.kind = "cannot_revert"]
                     /\ UNCHANGED <<current_step, applied_steps, current_stage_index,
                                    stage_memory, apply_btn, revert_enabled, apply_log>>
           ELSE IF Len(applied_steps) > 0
                THEN LET calc == CalcApplyAll(CalcReset, Front(applied_steps))
                         max_step_index == MaxStepIndex(calc.applied_steps)
                     IN  /\ SetCalculator(calc)
                         /\ current_step' = IF max_step_index >= 0 THEN max_step_index
                                            ELSE current_step
                         /\ apply_btn' = ButtonTarget(current_step')
                         /\ revert_enabled' = IF max_step_index >= 0
                                              THEN Len(calc.applied_steps) > 0
                                              ELSE revert_enabled
                         /\ apply_log' = IF apply_log = <<>> THEN <<>> ELSE Front(apply_log)
                         /\ wizard_last' = press
                ELSE /\ wizard_last' = [press EXCEPT !.kind = "cannot_revert"]
                     /\ UNCHANGED <<current_step, applied_steps, current_stage_index,
                                    stage_memory, apply_btn, revert_enabled, apply_log>>
    /\ UNCHANGED wizard_result
    /\ UNCHANGED <<cvars, gvars, svars, ivars, wvars, kvars, qvars, avars, rvars, fvars, uvars, dvars>>

\* the bins of the spectrum of the wizard: enough for a taper of 10 percent to act
\* on a spectrum already tapered
WizardBins == 8

\* the spectra the calculator can hold before an apodization step: flux 1, behind
\* no or one bin of zero padding
WizardFluxChoices == {[i \in 1..WizardBins |-> IF i > pad THEN 1 ELSE 0] : pad \in {0, 1}}

\* the "apodization" step of the calculator: apodize over the nonzero range
CalcApodize(flux, percent) ==
    LET nz == NonZero(flux)
        l1 == IF nz # {} THEN SetMin(nz) ELSE 0
        l2 == IF nz # {} THEN SetMax(nz) ELSE Len(flux) - 1
    IN  Apodize(flux, l1, l2, percent)

\* get_current_state() of the calculator whose flux was `flux` before apodization
RECURSIVE CalcFlux(_, _)
CalcFlux(steps, flux) ==
    IF steps = <<>> THEN flux
    ELSE IF Head(steps).type = "apodization"
         THEN CalcFlux(Tail(steps), CalcApodize(flux, Head(steps).percent))
         ELSE CalcFlux(Tail(steps), flux)

\* has_continuum_step of finish_preprocessing, lines 1263-1264
HasContinuumStep(steps) ==
    \E i \in 1..Len(steps) : steps[i].type \in {"continuum_fit", "interactive_continuum"}

\* the apodization steps among the applied steps
ApodizationSteps(steps) == SelectSeq(steps, LAMBDA op : op.type = "apodization")

\* the Apply button while it is connected to finish_preprocessing, lines 1137-1383
FinishWizard ==
    /\ apply_btn = "finish_preprocessing"
    /\ ~ wizard_result.finished
    /\ \E flattened \in WizardFluxChoices :
          LET out == FinishPreprocessing(CalcFlux(applied_steps, flattened),
                                         HasContinuumStep(applied_steps))
          IN  wizard_result' = [finished |-> TRUE, flat_flux |-> out.flat_flux,
                                tapered_flux |-> out.tapered_flux,
                                flattened |-> flattened]
    /\ wizard_last' = [kind |-> "finish", step |-> current_step, state |-> applied_steps,
                       effect |-> TRUE]
    /\ UNCHANGED <<current_step, applied_steps, stage_memory, current_stage_index,
                   apply_btn, revert_enabled, apply_log, wizard_count>>
    /\ UNCHANGED <<cvars, gvars, svars, ivars, wvars, kvars, qvars, avars, rvars, fvars, uvars, dvars>>

NextWizard ==
    \/ ApplyCurrentStep
    \/ RevertToPreviousStep
    \/ FinishWizard

SpecWizard == InitWizard /\ [][NextWizard]_vars

\* C33 as claimed: one Revert undoes exactly the most recently applied step: the
\* wizard is back on that step and the spectrum state is the state before that step
\* was applied.
C33_RevertUndoesLastStep ==
    (wizard_last.kind = "revert" /\ wizard_last.effect) =>
        /\ current_step = wizard_last.step
        /\ applied_steps = wizard_last.state

\* the last clause of C33 alone: when no Apply has raised, no step's effect is
\* applied twice
C33_NoEffectTwice ==
    wizard_count.failed = 0 =>
        \A i, j \in 1..Len(applied_steps) : applied_steps[i] = applied_steps[j] => i = j

\* C34 as claimed: the tapered_flux stored by the dialog is the flattened spectrum
\* apodized exactly once with the percentage of the apodization step the user
\* applied, and the flattened spectrum itself when no apodization step was applied.
C34_TaperedAsApplied ==
    (wizard_result.finished /\ HasContinuumStep(applied_steps)) =>
        wizard_result.tapered_flux =
            LET apod == ApodizationSteps(applied_steps)
            IN  IF apod = <<>> THEN wizard_result.flattened
                ELSE CalcApodize(wizard_result.flattened, apod[Len(apod)].percent)

\* the second half of C34 alone: without an apodization step tapered_flux is the
\* flattened spectrum
C34_OffMeansUntapered ==
    (wizard_result.finished /\ HasContinuumStep(applied_steps)
        /\ ApodizationSteps(applied_steps) = <<>>) =>
        wizard_result.tapered_flux = wizard_result.flattened

\* the first half of C34 alone: an apodization step of 30 percent gives the
\* flattened spectrum apodized once by 30 percent
C34_OnMeansOnce ==
    (wizard_result.finished /\ HasContinuumStep(applied_steps)
        /\ \E i \in 1..Len(applied_steps) : applied_steps[i].percent = 30) =>
        wizard_result.tapered_flux = CalcApodize(wizard_result.flattened, 30)

-----------------------------------------------------------------------------
(* The redshift mode dialog (redshift_mode_dialog.py) and the redshift window *)
(* _run_analysis_thread passes to the analysis; redshifts in units of 0.0001   *)

\* the defaults of zmin and zmax, -0.01 and 1.0
DefaultZmin == 0 - 100

DefaultZmax == 10000

\* the redshifts the dialog is opened with
DialogRedshiftChoices == {0 - 200, 0, 300, 10000, 12000}

\* what the search range field can hold: a number, "nan", or text float() rejects
RangeTexts ==
    {[kind |-> "number", value |-> v] : v \in {0 - 5, 0, 5, 500}}
        \cup {[kind |-> "nan", value |-> 0], [kind |-> "text", value |-> 0]}

\* analysis_kwargs: the default window, another window, a forced redshift
KwargsChoices ==
    {[zmin |-> DefaultZmin, zmax |-> DefaultZmax, forced_redshift |-> FALSE],
     [zmin |-> 0, zmax |-> 5000, forced_redshift |-> FALSE],
     [zmin |-> DefaultZmin, zmax |-> DefaultZmax, forced_redshift |-> TRUE]}

\* Python's max(a, b) and min(a, b) where b may be nan: a comparison with nan is
\* false, so the first argument is kept
PyMax(a, b, b_nan) == IF ~ b_nan /\ b > a THEN b ELSE a

PyMin(a, b, b_nan) == IF ~ b_nan /\ b < a THEN b ELSE a

\* lines 531-579 of _run_analysis_thread: zmin, zmax and forced_redshift of the call
\* of run_snid_analysis; manual_redshift of the controller stays None
RedshiftWindow(config, kwargs) ==
    IF config.present
    THEN IF config.mode = "force"
         THEN [called |-> TRUE, zmin |-> kwargs.zmin, zmax |-> kwargs.zmax,
               forced |-> TRUE]
         ELSE [called |-> TRUE,
               zmin |-> PyMax(DefaultZmin, config.redshift - config.search_range,
                              config.range_nan),
               zmax |-> PyMin(DefaultZmax, config.redshift + config.search_range,
                              config.range_nan),
               forced |-> FALSE]
    ELSE [called |-> TRUE, zmin |-> kwargs.zmin, zmax |-> kwargs.zmax,
          forced |-> kwargs.forced_redshift]

InitRedshift ==
    /\ IdleCluster
    /\ InitController
    /\ IdleSubtype
    /\ IdleCli
    /\ IdleWizard
    /\ IdleSession
    /\ IdleSavgol
    /\ IdleGrid
    /\ IdleSelection
    /\ IdleQuality
    /\ IdleApodize
    /\ IdleRepeat
    /\ redshift_value = 0
    /\ fixed_checked = TRUE
    /\ range_text = [kind |-> "number", value |-> 5]
    /\ mode_result = NoConfig
    /\ redshift_mode_config = NoConfig
    /\ analysis_call = NoAnalysisCall
    /\ zpc = "closed"

\* show_redshift_mode_dialog(parent, redshift_value): the dialog opens with "Force
\* Exact Redshift" checked and 0.0005 in the range field
OpenRedshiftDialog ==
    /\ zpc = "closed"
    /\ redshift_value' \in DialogRedshiftChoices
    /\ fixed_checked' = TRUE
    /\ range_text' = [kind |-> "number", value |-> 5]
    /\ zpc' = "open"
    /\ UNCHANGED <<mode_result, redshift_mode_config, analysis_call>>
    /\ UNCHANGED <<cvars, gvars, svars, ivars, wvars, kvars, qvars, avars, rvars, fvars, uvars, zvars>>

\* the user checks one of the two radio buttons of the exclusive group
CheckRadio ==
    /\ zpc = "open"
    /\ fixed_checked' \in BOOLEAN
    /\ UNCHANGED <<redshift_value, range_text, mode_result, redshift_mode_config,
                   analysis_call, zpc>>
    /\ UNCHANGED <<cvars, gvars, svars, ivars, wvars, kvars, qvars, avars, rvars, fvars, uvars, zvars>>

\* the user edits the search range field
EditRange ==
    /\ zpc = "open"
    /\ range_text' \in RangeTexts
    /\ UNCHANGED <<redshift_value, fixed_checked, mode_result, redshift_mode_config,
                   analysis_call, zpc>>
    /\ UNCHANGED <<cvars, gvars, svars, ivars, wvars, kvars, qvars, avars, rvars, fvars, uvars, zvars>>

\* _on_apply, lines 330-374: a range that is no number or not positive is refused
\* with a warning and the dialog stays open
OnApply ==
    /\ zpc = "open"
    /\ IF fixed_checked
       THEN /\ mode_result' = [present |-> TRUE, mode |-> "force",
                               redshift |-> redshift_value, search_range |-> 0,
                               range_nan |-> FALSE]
            /\ zpc' = "returned"
       ELSE IF range_text.kind = "text"
                 \/ (range_text.kind = "number" /\ range_text.value <= 0)
            THEN UNCHANGED <<mode_result, zpc>>
            ELSE /\ mode_result' = [present |-> TRUE, mode |-> "search",
                                    redshift |-> redshift_value,
                                    search_range |-> range_text.value,
                                    range_nan |-> (range_text.kind = "nan")]
                 /\ zpc' = "returned"
    /\ UNCHANGED <<redshift_value, fixed_checked, range_text, redshift_mode_config,
                   analysis_call>>
    /\ UNCHANGED <<cvars, gvars, svars, ivars, wvars, kvars, qvars, avars, rvars, fvars, uvars, zvars>>

\* the Cancel button: show_redshift_mode_dialog returns None
CancelRedshiftDialog ==
    /\ zpc = "open"
    /\ mode_result' = NoConfig
    /\ zpc' = "returned"
    /\ UNCHANGED <<redshift_value, fixed_checked, range_text, redshift_mode_config,
                   analysis_call>>
    /\ UNCHANGED <<cvars, gvars, svars, ivars, wvars, kvars, qvars, avars, rvars, fvars, uvars, zvars>>

\* the caller of the dialog stores what it returned as the controller's
\* redshift_mode_config
StoreRedshiftConfig ==
    /\ zpc = "returned"
    /\ redshift_mode_config' = mode_result
    /\ zpc' = "configured"
    /\ UNCHANGED <<redshift_value, fixed_checked, range_text, mode_result, analysis_call>>
    /\ UNCHANGED <<cvars, gvars, svars, ivars, wvars, kvars, qvars, avars, rvars, fvars, uvars, zvars>>

\* the analysis thread reaches the call of run_snid_analysis
CallRunSnidAnalysis ==
    /\ zpc = "configured"
    /\ \E kwargs \in KwargsChoices :
          analysis_call' = RedshiftWindow(redshift_mode_config, kwargs)
    /\ zpc' = "analysed"
    /\ UNCHANGED <<redshift_value, fixed_checked, range_text, mode_result,
                   redshift_mode_config>>
    /\ UNCHANGED <<cvars, gvars, svars, ivars, wvars, kvars, qvars, avars, rvars, fvars, uvars, zvars>>

NextRedshift ==
    \/ OpenRedshiftDialog
    \/ CheckRadio
    \/ EditRange
    \/ OnApply
    \/ CancelRedshiftDialog
    \/ StoreRedshiftConfig
    \/ CallRunSnidAnalysis

SpecRedshift == InitRedshift /\ [][NextRedshift]_vars

\* C36 as claimed: the analysis is never started with an empty redshift window:
\* whatever configuration the redshift mode dialog produced, the zmin and zmax
\* passed to run_snid_analysis satisfy zmin <= zmax.
C36_WindowNotEmpty ==
    analysis_call.called => analysis_call.zmin <= analysis_call.zmax

====
